---- MODULE Spec2Model ----
(***************************************************************************)
(* FAR Part-77 imaginary surfaces (runway_surfaces): the runway lookup     *)
(* tables of runway.py, the geometric helpers of util.py and the surface   *)
(* builders and zone classifier of surfaces.py.                            *)
(*                                                                         *)
(* Numbers.  The program computes in float64.  The model computes in exact *)
(* arithmetic: 2D coordinates are integers (feet), heights and slopes are  *)
(* rationals <<n, d>> in lowest terms with d > 0.  The runways fed to the  *)
(* model are laid along directions whose lengths are integers (the axes    *)
(* and the 3-4-5 direction), so every square root and every division that  *)
(* produces a coordinate is exact.  np.sqrt(2), a float64 constant, is     *)
(* carried as the rational 99/70.                                          *)
(***************************************************************************)
EXTENDS Integers, Sequences, FiniteSets, TLC

VARIABLES
    runways,       \* get_zone_information: the list of runways
    position,      \* get_zone_information: the 3D query point <<x, y, z>>
    eae,           \* get_zone_information: established airport elevation
    pc,            \* position in get_zone_information / in the table lookups
    hsurface,      \* local: the outline returned by get_horizontal_surface_edges
    in_hsurface,   \* local: in_hsurface
    build_limit,   \* local: build_limit (a rational)
    info,          \* local: the info dict (a function from its keys)
    k,             \* local: index of the next runway of the `for runway in runways` loop
    err,           \* the exception get_zone_information has raised, or "none"
    width_out,     \* the value returned by Runway.calc_psurface_width
    dim_out,       \* the value returned by Runway.calc_approach_dimensions
    args,          \* a call of a function of util.py: its name and its arguments
    result         \* the value returned by that call, or by get_approach_surface_vertices

vars == <<runways, position, eae, pc, hsurface, in_hsurface, build_limit, info,
          k, err, width_out, dim_out, args, result>>

-----------------------------------------------------------------------------
(* Exact arithmetic                                                        *)

Abs(n) == IF n < 0 THEN -n ELSE n

Sign(n) == IF n > 0 THEN 1 ELSE IF n < 0 THEN -1 ELSE 0

RECURSIVE GCD(_, _)
GCD(a, b) == IF b = 0 THEN a ELSE GCD(b, a % b)

\* the rational n/d in lowest terms, d > 0
Rat(n, d) ==
    LET g == GCD(Abs(n), Abs(d))
        s == IF d < 0 THEN -1 ELSE 1
    IN  <<s * (n \div g), s * (d \div g)>>

R(n) == <<n, 1>>

RAdd(a, b) == Rat(a[1] * b[2] + b[1] * a[2], a[2] * b[2])

RNeg(a) == <<-a[1], a[2]>>

RSub(a, b) == RAdd(a, RNeg(b))

\* the product, reduced crosswise first so that the intermediate stays small
RMul(a, b) ==
    LET g1 == GCD(Abs(a[1]), b[2])
        g2 == GCD(Abs(b[1]), a[2])
    IN  Rat((a[1] \div g1) * (b[1] \div g2), (a[2] \div g2) * (b[2] \div g1))

RDiv(a, b) == RMul(a, Rat(b[2], b[1]))

RLe(a, b) == a[1] * b[2] <= b[1] * a[2]

RLt(a, b) == a[1] * b[2] < b[1] * a[2]

RSign(a) == Sign(a[1])

\* np.sqrt on a perfect square (the inputs of the model keep it exact)
RECURSIVE SqrtSearch(_, _, _)
SqrtSearch(n, lo, hi) ==
    IF lo >= hi THEN lo
    ELSE LET mid == (lo + hi + 1) \div 2
         IN  IF mid * mid <= n THEN SqrtSearch(n, mid, hi)
             ELSE SqrtSearch(n, lo, mid - 1)

ISqrt(n) == SqrtSearch(n, 0, 46340)

IsSquare(n) == ISqrt(n) * ISqrt(n) = n

\* a dict: the function f with key key set to v
Put(f, key, v) == [x \in DOMAIN f \cup {key} |-> IF x = key THEN v ELSE f[x]]

EmptyDict == [x \in {} |-> 0]

-----------------------------------------------------------------------------
(* runway.py                                                               *)

RunwayTypes == {"UTILITY", "VISUAL", "NON_PRECISION_INSTRUMENT", "PRECISION_INSTRUMENT"}

ApproachTypes == {"VISUAL", "NON_PRECISION_INSTRUMENT", "PRECISION_INSTRUMENT"}

\* name: cli.py (lines 58-60) passes a name first to RunwayEnd and to Runway, and
\* get_zone_information reads runway.name and end.name; __init__ of runway.py stores the
\* other fields
RunwayEnd(name, point, approach_type) ==
    [name |-> name, point |-> point, approach_type |-> approach_type]

\* visibility_minimums is carried in hundredths of a statute mile (0.75 is 75)
Runway(name, runway_type, end1, end2, special_surface, visibility_minimums) ==
    [name |-> name, runway_type |-> runway_type, end1 |-> end1, end2 |-> end2,
     special_surface |-> special_surface, visiblity_minimums |-> visibility_minimums]

\* a mutant of calc_psurface_width: has_npia asks for both ends
calc_psurface_width_both(self) ==
    LET visual_only == self.end1.approach_type = "VISUAL" /\ self.end2.approach_type = "VISUAL"
        has_npia == self.end1.approach_type = "NON_PRECISION_INSTRUMENT"
                    /\ self.end2.approach_type = "NON_PRECISION_INSTRUMENT"
    IN  IF self.runway_type = "UTILITY"
        THEN (IF visual_only THEN 250 ELSE 500)
        ELSE IF self.runway_type = "VISUAL"
        THEN (IF visual_only THEN 500 ELSE 0)
        ELSE IF self.runway_type = "NON_PRECISION_INSTRUMENT"
        THEN (IF has_npia
              THEN (IF self.visiblity_minimums >= 75 THEN 1000 ELSE 0)
              ELSE IF self.visiblity_minimums > 75 THEN 500 ELSE 0)
        ELSE IF self.runway_type = "PRECISION_INSTRUMENT"
        THEN 1000
        ELSE 0

calc_psurface_width(self) ==
    LET visual_only == self.end1.approach_type = "VISUAL" /\ self.end2.approach_type = "VISUAL"
        has_npia == self.end1.approach_type = "NON_PRECISION_INSTRUMENT"
                    \/ self.end2.approach_type = "NON_PRECISION_INSTRUMENT"
    IN  IF self.runway_type = "UTILITY"
        THEN (IF visual_only THEN 250 ELSE 500)
        ELSE IF self.runway_type = "VISUAL"
        THEN (IF visual_only THEN 500 ELSE 0)
        ELSE IF self.runway_type = "NON_PRECISION_INSTRUMENT"
        THEN (IF has_npia
              THEN (IF self.visiblity_minimums >= 75 THEN 1000 ELSE 0)
              ELSE IF self.visiblity_minimums > 75 THEN 500 ELSE 0)
        ELSE IF self.runway_type = "PRECISION_INSTRUMENT"
        THEN 1000
        ELSE 0

calc_hsurface_radius(self) ==
    IF self.runway_type = "UTILITY" \/ self.runway_type = "VISUAL" THEN 5000 ELSE 10000

\* lines 112-135: the branch on end1_type; dim is [end1 |-> dict, end2 |-> dict]
ApproachEnd1(self, dim) ==
    LET end1_type == self.end1.approach_type
    IN  IF end1_type = "VISUAL"
        THEN [dim EXCEPT !.end1 =
                Put(Put(Put(@, "width", IF self.runway_type = "UTILITY" THEN 1250 ELSE 1500),
                        "length", 5000), "slope", <<1, 20>>)]
        ELSE IF end1_type = "NON_PRECISION_INSTRUMENT"
        THEN (IF self.runway_type = "UTILITY"
              THEN [dim EXCEPT !.end1 =
                      Put(Put(Put(@, "width", 2000), "length", 5000), "slope", <<1, 20>>)]
              ELSE LET d1 == [dim EXCEPT !.end1 = Put(Put(@, "length", 10000), "slope", <<1, 34>>)]
                   IN  IF self.visiblity_minimums > 75
                       THEN [d1 EXCEPT !.end1 = Put(@, "width", 3500)]
                       ELSE IF self.visiblity_minimums = 75
                       THEN [d1 EXCEPT !.end1 = Put(@, "width", 4000)]
                       ELSE d1)
        ELSE IF end1_type = "PRECISION_INSTRUMENT"
        THEN [dim EXCEPT
                !.end1 = Put(Put(Put(Put(@, "width", 16000), "length", 50000),
                                 "primary_slope", <<1, 50>>), "secondary_slope", <<1, 40>>),
                !.end2 = Put(@, "width", 16000)]
        ELSE dim

\* lines 137-161: the branch on end2_type
ApproachEnd2(self, dim) ==
    LET end2_type == self.end2.approach_type
    IN  IF end2_type = "VISUAL"
        THEN [dim EXCEPT !.end2 =
                Put(Put(Put(@, "width", IF self.runway_type = "UTILITY" THEN 1250 ELSE 1500),
                        "length", 5000), "slope", <<1, 20>>)]
        ELSE IF end2_type = "NON_PRECISION_INSTRUMENT"
        THEN (IF self.runway_type = "UTILITY"
              THEN [dim EXCEPT !.end2 =
                      Put(Put(Put(@, "width", 2000), "length", 5000), "slope", <<1, 20>>)]
              ELSE LET d1 == [dim EXCEPT !.end2 = Put(Put(@, "length", 10000), "slope", <<1, 34>>)]
                   IN  IF self.visiblity_minimums > 75
                       THEN [d1 EXCEPT !.end2 = Put(@, "width", 3500)]
                       ELSE IF self.visiblity_minimums = 75
                       THEN [d1 EXCEPT !.end2 = Put(@, "width", 4000)]
                       ELSE d1)
        ELSE IF end2_type = "PRECISION_INSTRUMENT"
        THEN [dim EXCEPT
                !.end2 = Put(Put(Put(Put(Put(@, "width", 16000), "primary_length", 10000),
                                     "secondary_length", 40000),
                                 "primary_slope", <<1, 50>>), "secondary_slope", <<1, 40>>)]
        ELSE dim

\* a mutant of calc_approach_dimensions: the end2 branch is skipped
calc_approach_dimensions_end1only(self) ==
    ApproachEnd1(self, [end1 |-> Put(EmptyDict, "type", self.end1.approach_type),
                        end2 |-> Put(EmptyDict, "type", self.end2.approach_type)])

calc_approach_dimensions(self) ==
    ApproachEnd2(self,
        ApproachEnd1(self, [end1 |-> Put(EmptyDict, "type", self.end1.approach_type),
                            end2 |-> Put(EmptyDict, "type", self.end2.approach_type)]))

-----------------------------------------------------------------------------
(* util.py                                                                 *)

\* np.sqrt on a rational that is the square of a rational
RSqrt(a) == <<ISqrt(a[1]), ISqrt(a[2])>>

\* an integer-valued rational as an integer
RInt(a) == a[1] \div a[2]

\* np.sqrt(dx^2 + dy^2); along an axis the root is |dy| resp. |dx|, taken without squaring
calc_distance(p1, p2) ==
    IF p1[1] = p2[1] THEN Abs(p1[2] - p2[2])
    ELSE IF p1[2] = p2[2] THEN Abs(p1[1] - p2[1])
    ELSE ISqrt((p1[1] - p2[1]) * (p1[1] - p2[1]) + (p1[2] - p2[2]) * (p1[2] - p2[2]))

\* the square of calc_distance, for comparisons of distances that are not integers
Dist2(p1, p2) ==
    (p1[1] - p2[1]) * (p1[1] - p2[1]) + (p1[2] - p2[2]) * (p1[2] - p2[2])

\* v = (amount / length + 1) * (p2 - p1) + p1, that is p2 + amount * (p2 - p1) / length
extend_point_in_one_direction(p1, p2, amount) ==
    LET length == calc_distance(p2, p1)
    IN  IF length = 0 THEN <<>>
        ELSE <<p2[1] + (amount * (p2[1] - p1[1])) \div length,
               p2[2] + (amount * (p2[2] - p1[2])) \div length>>

extend_points_in_both_directions(p1, p2, amount) ==
    LET Both(extended1, extended2) ==
            IF Len(extended1) = 0 \/ Len(extended2) = 0 THEN <<>>
            ELSE <<extended1, extended2>>
    IN  Both(extend_point_in_one_direction(p2, p1, amount),
             extend_point_in_one_direction(p1, p2, amount))

\* a variant that does not count a circle touching the other from inside as inside it
circle_in_circle_strict(c1, r1, c2, r2) ==
    LET d == calc_distance(c1, c2)
    IN  r1 > d + r2 \/ r2 > d + r1

circle_in_circle(c1, r1, c2, r2) ==
    LET d == calc_distance(c1, c2)
    IN  r1 >= d + r2 \/ r2 >= d + r1

\* a variant for theta = -arctan(a/b), the angle of the tangent of two equal circles
CetSinEqualRadii(a, b, c, m) ==
    LET sb == IF b < 0 THEN -1 ELSE 1
    IN  Rat(-(a * sb), m)

\* sin(theta) of cet2cr, theta = -arctan(a/b) - arcsin(c/m):
\*   sin(arctan(a/b)) = a*sgn(b)/m, cos(arctan(a/b)) = |b|/m  (a/0.0 is +-inf, arctan +-pi/2)
\*   sin(arcsin(c/m)) = c/m,        cos(arcsin(c/m)) = sqrt(m^2 - c^2)/m
CetSin(a, b, c, m) ==
    LET sb == IF b < 0 THEN -1 ELSE 1
        q  == ISqrt(m * m - c * c)
    IN  Rat(-(a * sb * q + Abs(b) * c), m * m)

\* |cos(theta)|, so that sqrt(-(r**2) * (sin(theta)**2 - 1)) is r * |cos(theta)|
CetCos(a, b, c, m) ==
    LET sb == IF b < 0 THEN -1 ELSE 1
        q  == ISqrt(m * m - c * c)
    IN  Rat(Abs(Abs(b) * q - a * sb * c), m * m)

\* one of the coloured return statements: (c[0] + sx * r * sin, c[1] + sy * sqrt(...)),
\* sy2 the sign of the second point's root (line 141 multiplies it by f)
CetPoints(c1, r1, c2, r2, sn, cs, sx, sy, sy2) ==
    << <<c1[1] + sx * RInt(RMul(R(r1), sn)), c1[2] + sy * RInt(RMul(R(r1), cs))>>,
       <<c2[1] + sx * RInt(RMul(R(r2), sn)), c2[2] + sy2 * RInt(RMul(R(r2), cs))>> >>

cet2cr(c1, r1, c2, r2) ==
    IF c1 = c2 THEN <<>>
    ELSE IF circle_in_circle(c1, r1, c2, r2) THEN <<>>
    ELSE
    LET a  == c2[2] - c1[2]
        b  == c1[1] - c2[1]
        c  == r2 - r1
        f  == IF r1 > r2 THEN -1 ELSE 1
        green  == <<-1, 1, 1>>
        red    == <<1, 1, 1>>
        orange == <<1, -1, -1>>
        blue   == <<-1, -1, -1>>
        bluef  == <<-f, -1, -f>>
        Points(m, sg) ==
            CetPoints(c1, r1, c2, r2, CetSin(a, b, c, m), CetCos(a, b, c, m), sg[1], sg[2], sg[3])
    IN  Points(ISqrt(a * a + b * b),
          IF c1[2] >= c2[2]
          THEN (IF r1 < r2
                THEN (IF c1[1] >= c2[1] THEN green
                      ELSE IF c1[1] >= c2[1] - r2 + r1 THEN red
                      ELSE orange)
                ELSE (IF c1[1] < c2[1] THEN orange
                      ELSE IF c1[1] <= c2[1] - r2 + r1 THEN blue
                      ELSE green))
          ELSE (IF r1 < r2
                THEN (IF c1[1] < c2[1] THEN orange
                      ELSE IF c1[1] <= c2[1] + r2 - r1 THEN bluef
                      ELSE green)
                ELSE (IF c1[1] >= c2[1] THEN green
                      ELSE IF c1[1] >= c2[1] + r2 - r1 THEN red
                      ELSE orange)))

RECURSIVE SumCoord(_, _)
SumCoord(points, c) ==
    IF points = <<>> THEN 0 ELSE points[1][c] + SumCoord(Tail(points), c)

\* compare_points of sort_directional; the center is the mean of the points, so every
\* difference a - center is taken times n = len(points): n*a - sum
compare_points(a, b, points) ==
    LET n  == Len(points)
        A0 == n * a[1] - SumCoord(points, 1)
        A1 == n * a[2] - SumCoord(points, 2)
        B0 == n * b[1] - SumCoord(points, 1)
        B1 == n * b[2] - SumCoord(points, 2)
        det == A0 * B1 - A1 * B0
    IN  IF A0 >= 0 /\ B0 < 0 THEN -1
        ELSE IF A0 < 0 /\ B0 >= 0 THEN 1
        ELSE IF A0 = 0 /\ B0 = 0
        THEN (IF A1 >= 0 \/ B1 >= 0 THEN Sign(b[2] - a[2]) ELSE Sign(a[2] - b[2]))
        ELSE IF det # 0 THEN Sign(det)
        ELSE Sign((B0 * B0 + B1 * B1) - (A0 * A0 + A1 * A1))

\* sorted: a list in descending order; x goes after the last element not below it
RECURSIVE InsertDesc(_, _, _)
InsertDesc(sorted, x, points) ==
    IF sorted = <<>> THEN <<x>>
    ELSE IF compare_points(sorted[Len(sorted)], x, points) >= 0 THEN Append(sorted, x)
    ELSE Append(InsertDesc(SubSeq(sorted, 1, Len(sorted) - 1), x, points), sorted[Len(sorted)])

RECURSIVE SortFrom(_, _, _)
SortFrom(sorted, rest, points) ==
    IF rest = <<>> THEN sorted
    ELSE SortFrom(InsertDesc(sorted, rest[1], points), Tail(rest), points)

\* points.sort(key=cmp_to_key(compare_points), reverse=ccw) with ccw=True
sort_directional(points) == SortFrom(<<>>, points, points)

get_side_of_line(a, b, c) ==
    Sign((b[1] - a[1]) * (c[2] - a[2]) - (c[1] - a[1]) * (b[2] - a[2]))

\* lis_4p: whether the list sympy returns for line(a, b) /\ segment(c, d) is non-empty:
\* c and d are not strictly on the same side of the line
lis_4p(a, b, c, d) ==
    get_side_of_line(a, b, c) * get_side_of_line(a, b, d) <= 0

\* line_intersects_circle: the length of the returned list. a, b, c are rationals.
\* The discriminant beta^2 - alpha*gamma is b^2 * (r^2*(a^2+b^2) - (a*p0 + b*p1 + c)^2),
\* so its sign is decided by |a*p0 + b*p1 + c| against r*sqrt(a^2+b^2).
line_intersects_circle(a, b, c, p, r) ==
    LET Span(v, lo, hi) == IF RLe(R(lo), v) /\ RLe(v, R(hi)) THEN 2 ELSE 0
        Count(t, rs) ==
            IF RLt(rs, <<Abs(t[1]), t[2]>>) THEN 0
            ELSE IF rs = <<Abs(t[1]), t[2]>> THEN 1
            ELSE 2
    IN  IF RSign(a) = 0 /\ RSign(b) = 0 THEN 0
        ELSE IF RSign(b) = 0 THEN Span(RDiv(RNeg(c), a), p[1] - r, p[1] + r)
        ELSE IF RSign(a) = 0 THEN Span(RDiv(RNeg(c), b), p[2] - r, p[2] + r)
        ELSE Count(RAdd(RAdd(RMul(a, R(p[1])), RMul(b, R(p[2]))), c),
                   RMul(R(r), RSqrt(RAdd(RMul(a, a), RMul(b, b)))))

create_right_triangle(a, b, w) ==
    LET dx == b[1] - a[1]
        dy == b[2] - a[2]
        l  == calc_distance(a, b)
    IN  IF l = 0 THEN <<>>
        ELSE << <<b[1] - (w * dy) \div l, b[2] + (w * dx) \div l>>,
                <<b[1] + (w * dy) \div l, b[2] - (w * dx) \div l>> >>

\* (height / slope) * np.sqrt(2), np.sqrt(2) carried as 99/70; slope is a rational
calc_dist_for_height(slope, height) ==
    IF RSign(slope) = 0 \/ height = 0 THEN 0
    ELSE RInt(RMul(RDiv(R(height), slope), <<99, 70>>))

RECURSIVE PolygonArea(_, _)
PolygonArea(vertices, i) ==
    IF i > Len(vertices) THEN 0
    ELSE LET v1 == vertices[i]
             v2 == vertices[(i % Len(vertices)) + 1]
         IN  (v2[1] - v1[1]) * (v2[2] + v1[2]) + PolygonArea(vertices, i + 1)

get_polygon_direction(vertices) == Sign(PolygonArea(vertices, 1))

\* direction == 0: point[1] == (dx / dy) * (point[0] - v0[0]) + v0[1]; with dy = 0 the
\* quotient is nan or +-inf and the comparison is False
is_in_polygon(point, vertices, force_ccw, force_cw) ==
    LET n == Len(vertices)
        direction == IF force_ccw THEN -1 ELSE IF force_cw THEN 1
                     ELSE get_polygon_direction(vertices)
    IN  IF n < 3 THEN FALSE
        ELSE IF direction = 0
        THEN (IF vertices[2][2] - vertices[1][2] = 0 THEN FALSE
              ELSE R(point[2]) =
                     RAdd(RMul(Rat(vertices[2][1] - vertices[1][1], vertices[2][2] - vertices[1][2]),
                               R(point[1] - vertices[1][1])),
                          R(vertices[1][2])))
        ELSE \A i \in 1..n :
               IF direction = 1
               THEN ~(get_side_of_line(vertices[i], vertices[(i % n) + 1], point) > -1)
               ELSE ~(get_side_of_line(vertices[i], vertices[(i % n) + 1], point) < 1)

is_in_circle(point, c, r) == Dist2(point, c) <= r * r

t3d(p, z) == <<p[1], p[2], z>>

t2d(p) == <<p[1], p[2]>>

\* cross of util.py on vectors <<dx, dy, dz>> with dx, dy integers and dz a rational;
\* the second component is det([[v1[0], v1[2]], [v2[0], v2[2]]]) as written there
cross(v1, v2) ==
    << RSub(RMul(R(v1[2]), v2[3]), RMul(v1[3], R(v2[2]))),
       RSub(RMul(R(v1[1]), v2[3]), RMul(v1[3], R(v2[1]))),
       R(v1[1] * v2[2] - v1[2] * v2[1]) >>

\* the callables returned by get_plane and get_cone are records; Apply evaluates them
get_plane(a, b, c) ==
    [kind |-> "plane", a |-> a,
     v |-> cross(<<b[1] - a[1], b[2] - a[2], RSub(b[3], a[3])>>,
                 <<c[1] - a[1], c[2] - a[2], RSub(c[3], a[3])>>)]

get_cone(c, r, h) ==
    IF h = c[3] THEN [kind |-> "flat", h |-> h]
    ELSE [kind |-> "cone", c |-> c, r |-> r, h |-> h]

\* lambda x, y: a[2] - ((v[0] * (x - a[0]) + v[1] * (y - a[1])) / v[2]); the quotients
\* v[0]/v[2] and v[1]/v[2] are taken first, which keeps the integers small
\* lambda x, y: np.sqrt((x - c[0])**2 + (y - c[1])**2) / (r / (h - c[2])) + c[2]
Apply(func, x, y) ==
    IF func.kind = "flat" THEN func.h
    ELSE IF func.kind = "plane"
    THEN RSub(func.a[3],
              RAdd(RMul(RDiv(func.v[1], func.v[3]), R(x - func.a[1])),
                   RMul(RDiv(func.v[2], func.v[3]), R(y - func.a[2]))))
    ELSE RAdd(RDiv(R(ISqrt(Dist2(<<x, y>>, func.c))), RDiv(R(func.r), RSub(func.h, func.c[3]))),
              func.c[3])

\* z <= func(x, y) resp. func(x, y) <= z for a cone, without taking the root:
\* sqrt(d2) / q + c2 <= z  iff  z >= c2 and d2 <= (q * (z - c2))^2   (q > 0)
ConeBelow(func, x, y, z) ==
    LET Below(t) == RSign(t) >= 0 /\ RLe(R(Dist2(<<x, y>>, func.c)), RMul(t, t))
    IN  Below(RMul(RDiv(R(func.r), RSub(func.h, func.c[3])), RSub(z, func.c[3])))

FuncLe(func, x, y, z) ==
    IF func.kind = "cone" THEN ConeBelow(func, x, y, z)
    ELSE RLe(Apply(func, x, y), z)

\* distance_to_line; `a == 0 and b == 0` compares tuples with 0 and is never true
distance_to_line(point, a, b) ==
    LET dx == b[1] - a[1]
        dy == b[2] - a[2]
        i  == R(-1)
        Quotient(num, j) == RDiv(<<Abs(num[1]), num[2]>>, RSqrt(RAdd(RMul(i, i), RMul(j, j))))
        Numerator(j, kk) ==
            Quotient(RAdd(RAdd(RMul(i, R(point[1])), RMul(j, R(point[2]))), kk), j)
        Line(m) == Numerator(RDiv(R(1), m), RNeg(RAdd(RDiv(R(a[2]), m), R(a[1]))))
    IN  IF dx = 0 THEN R(Abs(point[1] - a[1]))
        ELSE IF dy = 0 THEN R(Abs(point[2] - a[2]))
        ELSE Line(Rat(dx, dy))

\* c = dot(t1, t2) / (|t1| * |t2|); 0 <= c and c <= 1.  A zero vector makes c nan and
\* the result False; c <= 1 holds of every other pair of vectors
is_within_segment(p, a, b) ==
    LET t1 == <<b[1] - a[1], b[2] - a[2]>>
        t2 == <<p[1] - a[1], p[2] - a[2]>>
    IN  IF t1 = <<0, 0>> \/ t2 = <<0, 0>> THEN FALSE
        ELSE 0 <= t1[1] * t2[1] + t1[2] * t2[2]

-----------------------------------------------------------------------------
(* surfaces.py: the surface builders                                       *)

\* a function that raised: [err |-> the exception]; one that returned: err = "none"
Raise(e) == [err |-> e]

Edge(p1, p2, center) == [kind |-> "Edge", p1 |-> p1, p2 |-> p2, center |-> center]

Arc(center, radius) == [kind |-> "Arc", center |-> center, radius |-> radius]

\* lines 50-58: the dict psurface_vertices as its keys in insertion order and its values
RECURSIVE CollectCircles(_, _, _)
CollectCircles(rws, keys, rad) ==
    IF rws = <<>> THEN [err |-> "none", keys |-> keys, rad |-> rad]
    ELSE LET runway == rws[1]
             r == calc_hsurface_radius(runway)
             Add(extended_endpoints) ==
                 IF Len(extended_endpoints) = 0 THEN Raise("IndexError")
                 ELSE LET e1 == extended_endpoints[1]
                          e2 == extended_endpoints[2]
                          k1 == IF e1 \in DOMAIN rad THEN keys ELSE Append(keys, e1)
                          k2 == IF e2 \in DOMAIN rad \/ e2 = e1 THEN k1 ELSE Append(k1, e2)
                      IN  CollectCircles(Tail(rws), k2, Put(Put(rad, e1, r), e2, r))
         IN  Add(IF runway.special_surface
                 THEN extend_points_in_both_directions(runway.end1.point, runway.end2.point, 200)
                 ELSE <<runway.end1.point, runway.end2.point>>)

\* lines 107-117: the standard form of the line through p1 and p2
TangentLine(p1, p2) ==
    IF p2[1] - p1[1] = 0
    THEN [a |-> R(1), b |-> R(0), c |-> R(-p1[1])]
    ELSE LET m == Rat(p2[2] - p1[2], p2[1] - p1[1])
         IN  [a |-> RNeg(m), b |-> R(1), c |-> RSub(RMul(m, R(p1[1])), R(p1[2]))]

\* lines 93-129: the tangent from current_circle to secondary_circle crosses no perimeter
\* segment and cuts no third circle (indices from 1)
TangentValid(endpoints, rad, current_circle, secondary_circle, p1, p2) ==
    LET n == Len(endpoints)
        Valid(ln) ==
            \A u \in 1..n :
              LET t1 == endpoints[u]
                  t2 == endpoints[(u % n) + 1]
              IN  /\ ~lis_4p(p1, p2, t1, t2)
                  /\ (u # current_circle /\ u # secondary_circle)
                         => line_intersects_circle(ln.a, ln.b, ln.c, t1, rad[t1]) \in {0, 1}
    IN  Valid(TangentLine(p1, p2))

\* lines 73-137: the j-th round of the search from circle i; secondary_circle is i + j
RECURSIVE FindTangent(_, _, _, _)
FindTangent(endpoints, rad, i, j) ==
    LET n == Len(endpoints)
        secondary_circle == ((i - 1 + j) % n) + 1
        c1 == endpoints[i]
        c2 == endpoints[secondary_circle]
        Try(tangent_line) ==
            IF Len(tangent_line) = 0
            THEN FindTangent(endpoints, rad, i, j + 1)
            ELSE IF TangentValid(endpoints, rad, i, secondary_circle,
                                 tangent_line[1], tangent_line[2])
            THEN tangent_line
            ELSE FindTangent(endpoints, rad, i, j + 1)
    IN  IF j >= n THEN <<>>
        ELSE IF secondary_circle = i \/ circle_in_circle(c1, rad[c1], c2, rad[c2])
        THEN FindTangent(endpoints, rad, i, j + 1)
        ELSE Try(cet2cr(c1, rad[c1], c2, rad[c2]))

\* lines 66-144: the loop over i, which restarts from circle i whatever tangent was accepted
RECURSIVE WalkCircles(_, _, _, _)
WalkCircles(endpoints, rad, i, edges) ==
    IF i > Len(endpoints) THEN edges
    ELSE LET c1 == endpoints[i]
             Add(t) ==
                 IF Len(t) = 0 THEN WalkCircles(endpoints, rad, i + 1, edges)
                 ELSE WalkCircles(endpoints, rad, i + 1,
                          IF Len(edges) > 0
                          THEN edges \o <<Arc(c1, calc_distance(c1, t[1])), Edge(t[1], t[2], <<>>)>>
                          ELSE edges \o <<Edge(t[1], t[2], <<>>)>>)
         IN  Add(FindTangent(endpoints, rad, i, 0))

get_horizontal_surface_edges(rws) ==
    LET Close(endpoints, edges) ==
            IF Len(edges) = 0 THEN Raise("IndexError")
            ELSE [err |-> "none",
                  edges |-> Append(edges, Edge(edges[Len(edges)].p2, edges[1].p1, endpoints[1]))]
        Walk(rad, endpoints) == Close(endpoints, WalkCircles(endpoints, rad, 1, <<>>))
        Sort(cc) == IF cc.err # "none" THEN cc ELSE Walk(cc.rad, sort_directional(cc.keys))
    IN  IF Len(rws) = 0 THEN [err |-> "none", edges |-> <<>>]
        ELSE Sort(CollectCircles(rws, <<>>, EmptyDict))

\* the dict returned is [end1 |-> side1, end2 |-> side2], or the empty dict
get_primary_surface_vertices(runway) ==
    LET Sides(side1, side2) ==
            IF Len(side1) = 0 \/ Len(side2) = 0
            THEN [err |-> "none", vertices |-> EmptyDict]
            ELSE [err |-> "none", vertices |-> [end1 |-> side1, end2 |-> side2]]
        Build(endpoints, w) ==
            IF Len(endpoints) = 0 THEN Raise("IndexError")
            ELSE Sides(create_right_triangle(endpoints[2], endpoints[1], w),
                       create_right_triangle(endpoints[1], endpoints[2], w))
    IN  Build(IF runway.special_surface
              THEN extend_points_in_both_directions(runway.end1.point, runway.end2.point, 200)
              ELSE <<runway.end1.point, runway.end2.point>>,
              calc_psurface_width(runway) \div 2)

Midpoint(vs) == <<(vs[1][1] + vs[2][1]) \div 2, (vs[1][2] + vs[2][2]) \div 2>>

\* lines 207-227 resp. 229-244: the four vertices of one end.  own: the end's dimensions,
\* first: end1's dimensions (the length is read from them for both ends), w: width / 2
ApproachLength(own, first) ==
    IF own["type"] = "PRECISION_INSTRUMENT"
    THEN (IF "primary_length" \in DOMAIN first /\ "secondary_length" \in DOMAIN first
          THEN first["primary_length"] + first["secondary_length"] ELSE -1)
    ELSE (IF "length" \in DOMAIN first THEN first["length"] ELSE -1)

ApproachQuad(end_vertices, own_mid, other_mid, length, w) ==
    LET cl == extend_point_in_one_direction(other_mid, own_mid, length)
        triangle == create_right_triangle(own_mid, cl, w)
    IN  <<end_vertices[1], end_vertices[2], triangle[2], triangle[1]>>

\* w = width / 2 is computed once, from end1's width, and used for both ends
get_approach_surface_vertices(end_infos, psurface_vertices) ==
    IF DOMAIN psurface_vertices = {} THEN Raise("KeyError")
    ELSE
    LET end1_dimensions == end_infos.end1
        end2_dimensions == end_infos.end2
        end1_vertices == psurface_vertices.end1
        end2_vertices == psurface_vertices.end2
        end1_midpoint == Midpoint(end1_vertices)
        end2_midpoint == Midpoint(end2_vertices)
        length1 == ApproachLength(end1_dimensions, end1_dimensions)
        length2 == ApproachLength(end2_dimensions, end1_dimensions)
    IN  IF "width" \notin DOMAIN end1_dimensions \/ length1 < 0 THEN Raise("KeyError")
        ELSE IF end1_midpoint = end2_midpoint THEN Raise("IndexError")
        ELSE IF "width" \notin DOMAIN end2_dimensions \/ length2 < 0 THEN Raise("KeyError")
        ELSE [err |-> "none",
              vertices |->
                [end1 |-> ApproachQuad(end1_vertices, end1_midpoint, end2_midpoint, length1,
                                       end1_dimensions["width"] \div 2),
                 end2 |-> ApproachQuad(end2_vertices, end2_midpoint, end1_midpoint, length2,
                                       end1_dimensions["width"] \div 2)]]

get_transitional_surface_vertices(psurface_vertices, asurfaces) ==
    LET end1_vertices == psurface_vertices.end1
        end2_vertices == psurface_vertices.end2
        Build(extended1, extended2) ==
            IF Len(extended1) = 0 \/ Len(extended2) = 0 THEN Raise("IndexError")
            ELSE LET v1 == extended1[1]
                     v2 == extended1[2]
                     v3 == extended2[1]
                     v4 == extended2[2]
                 IN  [err |-> "none",
                      surfaces |->
                        << <<end1_vertices[1], asurfaces.end1[4], v1, v4, asurfaces.end2[3],
                             end2_vertices[2]>>,
                           <<end2_vertices[1], asurfaces.end2[4], v3, v2, asurfaces.end1[3],
                             end1_vertices[2]>> >>]
        Extend(d) ==
            Build(extend_points_in_both_directions(end1_vertices[1], end1_vertices[2], d),
                  extend_points_in_both_directions(end2_vertices[1], end2_vertices[2], d))
    IN  Extend(calc_dist_for_height(<<1, 7>>, 150))

-----------------------------------------------------------------------------
(* surfaces.py: the containment tests                                      *)

None == [kind |-> "None"]

\* `type(edge) is Arc` holds of the Arc entries only
is_in_horizontal_surface(pos, hs) ==
    \A i \in 1..Len(hs) :
        IF hs[i].kind = "Arc"
        THEN is_in_circle(pos, hs[i].center, hs[i].radius)
        ELSE ~(get_side_of_line(pos, hs[i].p1, hs[i].p2) < 1)

\* lines 332-341: an Arc entry; the callable returned, or None
ConicalArc(pos, edge, e) ==
    LET Test(cone1, cone2) ==
            IF /\ FuncLe(cone2, pos[1], pos[2], R(pos[3]))
               /\ RLe(R(pos[3]), Apply(cone1, pos[1], pos[2]))
            THEN cone1 ELSE None
    IN  Test(get_cone(t3d(edge.center, R(e + 150)), edge.radius, R(e + 150)),
             get_cone(t3d(edge.center, R(e + 150)), edge.radius + 4000, R(e + 350)))

\* lines 343-354: a straight entry
ConicalWedge(pos, edge, e) ==
    LET p13d == t3d(edge.p1, R(e + 150))
        p23d == t3d(edge.p2, R(e + 150))
        Test(distance, plane) ==
            IF /\ RLe(distance, R(4000))
               /\ is_within_segment(t2d(pos), edge.p1, edge.p2)
               /\ RLe(R(pos[3]), Apply(plane, pos[1], pos[2]))
            THEN plane ELSE None
        Plane(t) == Test(distance_to_line(t2d(pos), edge.p1, edge.p2), get_plane(p13d, p23d, t))
    IN  Plane(t3d(create_right_triangle(edge.p1, edge.p2, 4000)[1], R(e + 350)))

RECURSIVE ConicalFrom(_, _, _, _)
ConicalFrom(pos, hs, e, i) ==
    IF i > Len(hs) THEN None
    ELSE LET Found(f) == IF f # None THEN f ELSE ConicalFrom(pos, hs, e, i + 1)
         IN  Found(IF hs[i].kind = "Arc" THEN ConicalArc(pos, hs[i], e)
                   ELSE ConicalWedge(pos, hs[i], e))

is_in_conical_surface(pos, hs, e) ==
    IF pos[3] < e + 150 THEN None ELSE ConicalFrom(pos, hs, e, 1)

\* lines 372-393: a precision-instrument end
ApproachPrecision(pos, asurface, approach_dimensions, e) ==
    LET p1  == t3d(asurface[1], R(e))
        p2  == t3d(asurface[2], R(e))
        Test(plane) ==
            IF ~is_in_polygon(t2d(pos), asurface, TRUE, FALSE) THEN None
            ELSE IF RLe(R(pos[3]), Apply(plane, pos[1], pos[2])) THEN plane
            ELSE None
        \* |proj(a, b)| = |a.b| / |b|, and |b| is primary_length
        Near(a, b, lb) ==
            Abs(a[1] * b[1] + a[2] * b[2]) <= approach_dimensions["primary_length"] * lb
        Planes(h1, midpoint, t) ==
            Test(IF Near(<<pos[1] - midpoint[1], pos[2] - midpoint[2]>>,
                         <<t[1] - midpoint[1], t[2] - midpoint[2]>>, calc_distance(t, midpoint))
                 THEN get_plane(p1, p2, t3d(asurface[4], h1))
                 ELSE get_plane(p1, p2,
                        t3d(asurface[4],
                            RAdd(h1, RMul(approach_dimensions["secondary_slope"],
                                          R(approach_dimensions["secondary_length"]))))))
        Mid(midpoint) ==
            Planes(RAdd(R(e), RMul(approach_dimensions["primary_slope"],
                                   R(approach_dimensions["primary_length"]))),
                   midpoint,
                   create_right_triangle(asurface[1], midpoint,
                                         approach_dimensions["primary_length"])[1])
    IN  Mid(Midpoint(asurface))

is_in_approach_surface(pos, asurface, approach_dimensions, e) ==
    LET p1 == t3d(asurface[1], R(e))
        p2 == t3d(asurface[2], R(e))
        Test(plane) ==
            IF /\ is_in_polygon(t2d(pos), asurface, TRUE, FALSE)
               /\ RLe(R(pos[3]), Apply(plane, pos[1], pos[2]))
            THEN plane ELSE None
        Plane(h) == Test(get_plane(p1, p2, t3d(asurface[4], h)))
    IN  IF approach_dimensions["type"] = "PRECISION_INSTRUMENT"
        THEN ApproachPrecision(pos, asurface, approach_dimensions, e)
        ELSE Plane(RAdd(R(e), RMul(approach_dimensions["slope"], R(approach_dimensions["length"]))))

is_in_transitional_surface(pos, tsurface, e) ==
    LET p1 == t3d(tsurface[1], R(e))
        p2 == t3d(tsurface[Len(tsurface)], R(e))
        p3 == t3d(tsurface[3], R(e + 150))
        Test(plane) ==
            IF /\ is_in_polygon(t2d(pos), tsurface, TRUE, FALSE)
               /\ RLe(R(pos[3]), Apply(plane, pos[1], pos[2]))
            THEN plane ELSE None
    IN  Test(get_plane(p1, p2, p3))

-----------------------------------------------------------------------------
(* surfaces.py: get_zone_information                                       *)

\* The locals of get_zone_information that outlive a loop round, as one record:
\* info, build_limit, err (the exception raised) and returned (line 472 has run).

\* a mutant of ZoneStart: the info dict starts with a build_limit, the airport elevation
ZoneStartWithLimit(pos, hs, e) ==
    LET info0 == Put(Put(EmptyDict, "zone", "N/A"), "build_limit", R(e))
        Conical(z) == [info |-> Put(Put(info0, "zone", "Conical"), "build_limit", z),
                       build_limit |-> z, in_hsurface |-> FALSE]
        Outside(func) ==
            IF func # None THEN Conical(Apply(func, pos[1], pos[2]))
            ELSE [info |-> info0, build_limit |-> R(e), in_hsurface |-> FALSE]
    IN  IF ~is_in_horizontal_surface(t2d(pos), hs)
        THEN Outside(is_in_conical_surface(pos, hs, e))
        ELSE [info |-> Put(Put(info0, "zone", "Horizontal"), "build_limit", R(e)),
              build_limit |-> R(e), in_hsurface |-> TRUE]

\* lines 434-453
ZoneStart(pos, hs, e) ==
    LET info0 == Put(EmptyDict, "zone", "N/A")
        Conical(z) == [info |-> Put(Put(info0, "zone", "Conical"), "build_limit", z),
                       build_limit |-> z, in_hsurface |-> FALSE]
        Outside(func) ==
            IF func # None THEN Conical(Apply(func, pos[1], pos[2]))
            ELSE [info |-> info0, build_limit |-> R(e), in_hsurface |-> FALSE]
    IN  IF ~is_in_horizontal_surface(t2d(pos), hs)
        THEN Outside(is_in_conical_surface(pos, hs, e))
        ELSE [info |-> Put(Put(info0, "zone", "Horizontal"), "build_limit", R(e)),
              build_limit |-> R(e), in_hsurface |-> TRUE]

\* lines 475-484: one transitional surface
TransitionalStep(st, runway, pos, tsurface, e) ==
    LET Update(z) ==
            IF RLt(st.build_limit, z)
            THEN [st EXCEPT !.build_limit = z,
                     !.info = Put(Put(Put(@, "runway", runway.name), "zone", "Transitional"),
                                  "build_limit", z)]
            ELSE st
        Found(func) == IF func = None THEN st ELSE Update(Apply(func, pos[1], pos[2]))
    IN  Found(is_in_transitional_surface(pos, tsurface, e))

\* a mutant of ApproachStep: the lower candidate wins
ApproachStepLowest(st, runway, pos, end, asurface, ainfo, e) ==
    LET Update(z) ==
            IF RLt(z, st.build_limit)
            THEN [st EXCEPT !.build_limit = z,
                     !.info = Put(Put(Put(Put(@, "runway", runway.name), "zone", "Approach"),
                                      "end", end.name), "build_limit", z)]
            ELSE st
        Found(func) == IF func = None THEN st ELSE Update(Apply(func, pos[1], pos[2]))
    IN  Found(is_in_approach_surface(pos, asurface, ainfo, e))

\* a variant of ApproachStep: a candidate as high as the current build_limit wins as well
ApproachStepNotLower(st, runway, pos, end, asurface, ainfo, e) ==
    LET Update(z) ==
            IF RLe(st.build_limit, z)
            THEN [st EXCEPT !.build_limit = z,
                     !.info = Put(Put(Put(Put(@, "runway", runway.name), "zone", "Approach"),
                                      "end", end.name), "build_limit", z)]
            ELSE st
        Found(func) == IF func = None THEN st ELSE Update(Apply(func, pos[1], pos[2]))
    IN  Found(is_in_approach_surface(pos, asurface, ainfo, e))

\* lines 487-498: one approach surface
ApproachStep(st, runway, pos, end, asurface, ainfo, e) ==
    LET Update(z) ==
            IF RLt(st.build_limit, z)
            THEN [st EXCEPT !.build_limit = z,
                     !.info = Put(Put(Put(Put(@, "runway", runway.name), "zone", "Approach"),
                                      "end", end.name), "build_limit", z)]
            ELSE st
        Found(func) == IF func = None THEN st ELSE Update(Apply(func, pos[1], pos[2]))
    IN  Found(is_in_approach_surface(pos, asurface, ainfo, e))

\* lines 455-498: one round of `for runway in runways`
ZoneIter(st, runway, pos, e, inh) ==
    LET Classify(approach_dimensions, psurface, asurfaces, tsurfaces) ==
            IF tsurfaces.err # "none" THEN [st EXCEPT !.err = tsurfaces.err]
            ELSE IF inh /\ is_in_polygon(t2d(pos), psurface.vertices.end1 \o psurface.vertices.end2,
                                         FALSE, FALSE)
            THEN [st EXCEPT !.returned = TRUE,
                     !.info = Put(Put(Put(@, "runway", runway.name), "zone", "Primary"),
                                  "build_limit", R(e))]
            ELSE ApproachStep(
                   ApproachStep(
                     IF inh
                     THEN TransitionalStep(
                            TransitionalStep(st, runway, pos, tsurfaces.surfaces[1], e),
                            runway, pos, tsurfaces.surfaces[2], e)
                     ELSE st,
                     runway, pos, runway.end1, asurfaces.vertices.end1,
                     approach_dimensions.end1, e),
                   runway, pos, runway.end2, asurfaces.vertices.end2, approach_dimensions.end2, e)
        Transitional(approach_dimensions, psurface, asurfaces) ==
            IF asurfaces.err # "none" THEN [st EXCEPT !.err = asurfaces.err]
            ELSE Classify(approach_dimensions, psurface, asurfaces,
                     get_transitional_surface_vertices(psurface.vertices, asurfaces.vertices))
        Approach(approach_dimensions, psurface) ==
            IF psurface.err # "none" THEN [st EXCEPT !.err = psurface.err]
            ELSE Transitional(approach_dimensions, psurface,
                     get_approach_surface_vertices(approach_dimensions, psurface.vertices))
    IN  Approach(calc_approach_dimensions(runway), get_primary_surface_vertices(runway))

\* the loop from runway i on
RECURSIVE ZoneLoop(_, _, _, _, _, _)
ZoneLoop(st, rws, i, pos, e, inh) ==
    IF i > Len(rws) \/ st.err # "none" \/ st.returned THEN st
    ELSE ZoneLoop(ZoneIter(st, rws[i], pos, e, inh), rws, i + 1, pos, e, inh)

\* get_zone_information as a function of its arguments: [err, info]
get_zone_information(pos, rws, e) ==
    LET Loop(s0) ==
            ZoneLoop([info |-> s0.info, build_limit |-> s0.build_limit,
                      err |-> "none", returned |-> FALSE],
                     rws, 1, pos, e, s0.in_hsurface)
        Result(st) == [err |-> st.err, info |-> st.info]
        Classify(hs) ==
            IF hs.err # "none" THEN [err |-> hs.err, info |-> Put(EmptyDict, "zone", "N/A")]
            ELSE Result(Loop(ZoneStart(pos, hs.edges, e)))
    IN  Classify(get_horizontal_surface_edges(rws))

-----------------------------------------------------------------------------
(* The inputs                                                              *)

\* query heights are eae, eae + 75, ..., eae + 75 * MaxLevel
MaxLevel == 2

\* visibility minimums are 0, 0.25, ..., 0.25 * MaxVis statute miles
MaxVis == 4

Elevations == {500, 600}

\* runway geometries <<end1.point, end2.point>>: along x (shorter and longer than the
\* horizontal-surface radius), along y, and along the 3-4-5 direction
Geometries ==
    { << <<0, 0>>, <<2000, 0>> >>, << <<0, 0>>, <<6000, 0>> >>,
      << <<0, 0>>, <<0, 2000>> >>, << <<0, 0>>, <<1200, 1600>> >> }

\* <<runway_type, end1 approach, end2 approach, visibility minimum (hundredths)>>
Categories ==
    { <<"UTILITY", "VISUAL", "VISUAL", 0>>,
      <<"UTILITY", "VISUAL", "NON_PRECISION_INSTRUMENT", 0>>,
      <<"VISUAL", "VISUAL", "VISUAL", 0>>,
      <<"VISUAL", "VISUAL", "NON_PRECISION_INSTRUMENT", 0>>,
      <<"NON_PRECISION_INSTRUMENT", "NON_PRECISION_INSTRUMENT", "NON_PRECISION_INSTRUMENT", 100>>,
      <<"PRECISION_INSTRUMENT", "PRECISION_INSTRUMENT", "PRECISION_INSTRUMENT", 0>> }

MakeRunway(name, g, c, special) ==
    Runway(name, c[1], RunwayEnd(name \o "-1", g[1], c[2]), RunwayEnd(name \o "-2", g[2], c[3]),
           special, c[4])

\* two parallel runways 4000 ft apart
ParallelPair(c1, c2) ==
    << MakeRunway("A", << <<0, 0>>, <<3000, 0>> >>, c1, FALSE),
       MakeRunway("B", << <<0, 4000>>, <<3000, 4000>> >>, c2, FALSE) >>

UtilityVisual == <<"UTILITY", "VISUAL", "VISUAL", 0>>

\* one strip entered twice, under two names and the categories c1 and c2
TwinPair(c1, c2) ==
    << MakeRunway("A", << <<0, 0>>, <<2000, 0>> >>, c1, FALSE),
       MakeRunway("B", << <<0, 0>>, <<2000, 0>> >>, c2, FALSE) >>

NonPrecision ==
    <<"NON_PRECISION_INSTRUMENT", "NON_PRECISION_INSTRUMENT", "NON_PRECISION_INSTRUMENT", 100>>

\* a runway along y that crosses the extended centerline of a runway along x, 2100 ft
\* beyond its end2
CrossingPair ==
    << MakeRunway("A", << <<0, 0>>, <<7500, 0>> >>, UtilityVisual, FALSE),
       MakeRunway("B", << <<9600, -2800>>, <<9600, 2800>> >>, UtilityVisual, FALSE) >>

RunwayLists ==
    { <<MakeRunway("A", << <<0, 0>>, <<2000, 0>> >>, c, FALSE)>> : c \in Categories }
    \cup { <<MakeRunway("A", g, UtilityVisual, FALSE)>> : g \in Geometries }
    \cup { <<MakeRunway("A", << <<0, 0>>, <<2000, 0>> >>, UtilityVisual, TRUE)>>,
           ParallelPair(UtilityVisual, <<"UTILITY", "VISUAL", "NON_PRECISION_INSTRUMENT", 0>>),
           TwinPair(UtilityVisual, UtilityVisual),
           TwinPair(UtilityVisual, NonPrecision),
           TwinPair(NonPrecision, UtilityVisual),
           CrossingPair }

\* the point s feet along the runway from end1 towards end2 and t feet to its left
InFrame(runway, s, t) ==
    LET a == runway.end1.point
        b == runway.end2.point
        l == calc_distance(a, b)
    IN  <<a[1] + (s * (b[1] - a[1])) \div l - (t * (b[2] - a[2])) \div l,
          a[2] + (s * (b[2] - a[2])) \div l + (t * (b[1] - a[1])) \div l>>

RunwayLength(runway) == calc_distance(runway.end1.point, runway.end2.point)

AlongOffsets(runway) ==
    {-3000, -500, 500, RunwayLength(runway) \div 2, RunwayLength(runway),
     RunwayLength(runway) + 3000}

AcrossOffsets == {0, 600, -1000, 3000, -5000, -6000, 6000, -9000, -9500}

\* query points laid out along and across the first and the last runway of the list
Positions(rws, e) ==
    UNION { { t3d(InFrame(rws[n], s, t), e + 75 * i) :
                s \in AlongOffsets(rws[n]), t \in AcrossOffsets, i \in 0..MaxLevel } :
            n \in {1, Len(rws)} }

-----------------------------------------------------------------------------
(* get_zone_information as a state machine                                 *)

Init ==
    /\ runways \in RunwayLists
    /\ eae \in Elevations
    /\ position \in Positions(runways, eae)
    /\ pc = "start"
    /\ hsurface = <<>>
    /\ in_hsurface = FALSE
    /\ build_limit = R(eae)
    /\ info = EmptyDict
    /\ k = 1
    /\ err = "none"
    /\ width_out = 0
    /\ dim_out = EmptyDict
    /\ args = <<>>
    /\ result = <<>>

\* lines 434-453
Start ==
    /\ pc = "start"
    /\ LET Enter(hs, s0) ==
               /\ hsurface' = hs.edges
               /\ in_hsurface' = s0.in_hsurface
               /\ build_limit' = s0.build_limit
               /\ info' = s0.info
               /\ pc' = "loop"
               /\ err' = err
           Begin(hs) ==
               IF hs.err # "none"
               THEN /\ err' = hs.err
                    /\ pc' = "raised"
                    /\ UNCHANGED <<hsurface, in_hsurface, build_limit, info>>
               ELSE Enter(hs, ZoneStart(position, hs.edges, eae))
       IN  Begin(get_horizontal_surface_edges(runways))
    /\ UNCHANGED <<runways, position, eae, k, width_out, dim_out, args, result>>

\* lines 455-498: the round of runway k; line 472 returns from inside it
Iterate ==
    /\ pc = "loop"
    /\ k <= Len(runways)
    /\ LET Step(st) ==
               /\ info' = st.info
               /\ build_limit' = st.build_limit
               /\ err' = st.err
               /\ pc' = IF st.err # "none" THEN "raised"
                        ELSE IF st.returned THEN "done" ELSE "loop"
               /\ k' = IF st.err # "none" \/ st.returned THEN k ELSE k + 1
       IN  Step(ZoneIter([info |-> info, build_limit |-> build_limit, err |-> "none",
                          returned |-> FALSE], runways[k], position, eae, in_hsurface))
    /\ UNCHANGED <<runways, position, eae, hsurface, in_hsurface, width_out, dim_out, args, result>>

\* line 500
Return ==
    /\ pc = "loop"
    /\ k > Len(runways)
    /\ pc' = "done"
    /\ UNCHANGED <<runways, position, eae, hsurface, in_hsurface, build_limit, info, k, err,
                   width_out, dim_out, args, result>>

Next == Start \/ Iterate \/ Return

Spec == Init /\ [][Next]_vars

-----------------------------------------------------------------------------
(* The lookups of runway.py on every combination of categories             *)

VisibilityMinimums == {25 * i : i \in 0..MaxVis}

InitDims ==
    /\ runways \in { <<MakeRunway("A", << <<0, 0>>, <<2000, 0>> >>, <<rt, a1, a2, vm>>, FALSE)>> :
                       rt \in RunwayTypes, a1 \in ApproachTypes, a2 \in ApproachTypes,
                       vm \in VisibilityMinimums }
    /\ eae = 500
    /\ position = <<0, 0, 500>>
    /\ pc = "lookup"
    /\ hsurface = <<>>
    /\ in_hsurface = FALSE
    /\ build_limit = R(eae)
    /\ info = EmptyDict
    /\ k = 1
    /\ err = "none"
    /\ width_out = 0
    /\ dim_out = EmptyDict
    /\ args = <<>>
    /\ result = <<>>

CalcPsurfaceWidth ==
    /\ pc = "lookup"
    /\ width_out' = calc_psurface_width(runways[1])
    /\ pc' = "width"
    /\ UNCHANGED <<runways, position, eae, hsurface, in_hsurface, build_limit, info, k, err,
                   dim_out, args, result>>

CalcApproachDimensions ==
    /\ pc = "width"
    /\ dim_out' = calc_approach_dimensions(runways[1])
    /\ pc' = "dims"
    /\ UNCHANGED <<runways, position, eae, hsurface, in_hsurface, build_limit, info, k, err,
                   width_out, args, result>>

\* lines 456-458 of surfaces.py on the dimensions just computed: result is what
\* get_approach_surface_vertices returned or raised
GetApproachSurfaceVertices ==
    /\ pc = "dims"
    /\ LET Build(psurface) ==
               IF psurface.err # "none" THEN psurface
               ELSE get_approach_surface_vertices(dim_out, psurface.vertices)
       IN  result' = Build(get_primary_surface_vertices(runways[1]))
    /\ pc' = "vertices"
    /\ UNCHANGED <<runways, position, eae, hsurface, in_hsurface, build_limit, info, k, err,
                   width_out, dim_out, args>>

NextDims == CalcPsurfaceWidth \/ CalcApproachDimensions \/ GetApproachSurfaceVertices

SpecDims == InitDims /\ [][NextDims]_vars

-----------------------------------------------------------------------------
(* Properties of the lookups (under SpecDims)                              *)

\* C7, as stated: calc_psurface_width returns 250 for a Utility runway with two visual
\* ends and 500 for any other Utility runway, 500 for a Visual runway with two visual
\* ends, 1000 for a NonPrecision runway only when BOTH ends are non-precision and the
\* visibility minimum is at least 0.75, 500 for a NonPrecision runway whose visibility
\* minimum exceeds 0.75, 1000 for a Precision runway, and 0 otherwise.
C7_WidthTableBothEnds ==
    pc \in {"width", "dims"} =>
      LET self == runways[1]
          visual_only == self.end1.approach_type = "VISUAL" /\ self.end2.approach_type = "VISUAL"
          both_npi == self.end1.approach_type = "NON_PRECISION_INSTRUMENT"
                      /\ self.end2.approach_type = "NON_PRECISION_INSTRUMENT"
      IN  width_out =
            CASE self.runway_type = "UTILITY" -> (IF visual_only THEN 250 ELSE 500)
              [] self.runway_type = "VISUAL" -> (IF visual_only THEN 500 ELSE 0)
              [] self.runway_type = "NON_PRECISION_INSTRUMENT" ->
                   (IF both_npi /\ self.visiblity_minimums >= 75 THEN 1000
                    ELSE IF self.visiblity_minimums > 75 THEN 500 ELSE 0)
              [] self.runway_type = "PRECISION_INSTRUMENT" -> 1000

\* C7, amended: as above, except that a NonPrecision runway gets 1000 when AT LEAST ONE
\* end is non-precision and the visibility minimum is at least 0.75, 500 when neither
\* end is non-precision and the visibility minimum exceeds 0.75, and 0 otherwise.
C7_WidthTable ==
    pc \in {"width", "dims"} =>
      LET self == runways[1]
          visual_only == self.end1.approach_type = "VISUAL" /\ self.end2.approach_type = "VISUAL"
          some_npi == "NON_PRECISION_INSTRUMENT" \in {self.end1.approach_type, self.end2.approach_type}
      IN  width_out =
            CASE self.runway_type = "UTILITY" -> (IF visual_only THEN 250 ELSE 500)
              [] self.runway_type = "VISUAL" -> (IF visual_only THEN 500 ELSE 0)
              [] self.runway_type = "NON_PRECISION_INSTRUMENT" ->
                   (IF some_npi THEN (IF self.visiblity_minimums >= 75 THEN 1000 ELSE 0)
                    ELSE IF self.visiblity_minimums > 75 THEN 500 ELSE 0)
              [] self.runway_type = "PRECISION_INSTRUMENT" -> 1000

\* a NonPrecision runway with exactly one non-precision end has been looked up
C7_OneNonPrecisionEnd ==
    /\ pc = "width"
    /\ runways[1].runway_type = "NON_PRECISION_INSTRUMENT"
    /\ runways[1].end1.approach_type = "NON_PRECISION_INSTRUMENT"
    /\ runways[1].end2.approach_type = "VISUAL"
    /\ runways[1].visiblity_minimums >= 75
    /\ width_out = 1000

\* the record calc_approach_dimensions returns for a precision-instrument end, as C8
\* states it
PrecisionRecord(d) ==
    /\ {"width", "primary_length", "secondary_length", "primary_slope", "secondary_slope"}
         \subseteq DOMAIN d
    /\ d["width"] = 16000
    /\ d["primary_length"] = 10000
    /\ d["secondary_length"] = 40000
    /\ d["primary_slope"] = <<1, 50>>
    /\ d["secondary_slope"] = <<1, 40>>

\* C8, as stated: every PrecisionInstrument end, be it end1 or end2, gets width 16000,
\* primary_length 10000, secondary_length 40000, primary_slope 1/50 and
\* secondary_slope 1/40 from calc_approach_dimensions.
C8_PrecisionEnds ==
    pc = "dims" =>
      /\ runways[1].end1.approach_type = "PRECISION_INSTRUMENT" => PrecisionRecord(dim_out.end1)
      /\ runways[1].end2.approach_type = "PRECISION_INSTRUMENT" => PrecisionRecord(dim_out.end2)

\* the record of a visual or non-precision end of a runway of type rt with visibility
\* minimum vm, as C9 states it
ApproachRecord(d, at, rt, vm) ==
    LET Has(key, v) == key \in DOMAIN d /\ d[key] = v
        Rise(q) == {"slope", "length"} \subseteq DOMAIN d /\ RMul(d["slope"], R(d["length"])) = q
    IN  CASE at = "VISUAL" ->
               /\ Has("width", IF rt = "UTILITY" THEN 1250 ELSE 1500)
               /\ Has("length", 5000) /\ Has("slope", <<1, 20>>) /\ Rise(R(250))
          [] at = "NON_PRECISION_INSTRUMENT" /\ rt = "UTILITY" ->
               /\ Has("width", 2000) /\ Has("length", 5000) /\ Has("slope", <<1, 20>>)
               /\ Rise(R(250))
          [] at = "NON_PRECISION_INSTRUMENT" /\ rt # "UTILITY" ->
               /\ Has("length", 10000) /\ Has("slope", <<1, 34>>) /\ Rise(Rat(10000, 34))
               /\ vm > 75 => Has("width", 3500)
               /\ vm = 75 => Has("width", 4000)
          [] OTHER -> TRUE

\* C9: a Visual end gets width 1250 on a Utility runway and 1500 otherwise, length 5000
\* and slope 1/20; a NonPrecision end gets 2000 / 5000 / 1/20 on a Utility runway and
\* otherwise length 10000, slope 1/34 and width 3500 when the visibility minimum exceeds
\* 0.75, 4000 when it equals 0.75; slope times length is 250 resp. 10000/34.
C9_VisualAndNonPrecisionEnds ==
    pc = "dims" =>
      LET self == runways[1]
      IN  /\ ApproachRecord(dim_out.end1, self.end1.approach_type, self.runway_type,
                            self.visiblity_minimums)
          /\ ApproachRecord(dim_out.end2, self.end2.approach_type, self.runway_type,
                            self.visiblity_minimums)

\* the dimensions of a non-precision end2 at visibility minimum 0.75, beside a visual
\* end1, have been looked up
C9_NonPrecisionEnd2 ==
    /\ pc = "dims"
    /\ runways[1].runway_type = "VISUAL"
    /\ runways[1].end1.approach_type = "VISUAL"
    /\ runways[1].end2.approach_type = "NON_PRECISION_INSTRUMENT"
    /\ runways[1].visiblity_minimums = 75
    /\ dim_out.end2["width"] = 4000
    /\ dim_out.end1["width"] = 1500

-----------------------------------------------------------------------------
(* Properties of get_zone_information (under Spec)                         *)

\* get_zone_information has returned: info is its result
Returned == pc = "done"

\* the radius of the horizontal-surface circles of the runway
Radius(runway) == calc_hsurface_radius(runway)

\* the query point, s feet along runways[1] and t feet across it
At(s, t) == t2d(position) = InFrame(runways[1], s, t)

\* the query point is strictly inside the primary footprint of the runway
InPrimary(runway) ==
    LET Inside(ps) ==
            /\ ps.err = "none"
            /\ DOMAIN ps.vertices # {}
            /\ is_in_polygon(t2d(position), ps.vertices.end1 \o ps.vertices.end2, FALSE, FALSE)
    IN  Inside(get_primary_surface_vertices(runway))

\* C1, as stated: a query point strictly inside some runway's primary footprint is
\* classified Primary with build_limit equal to the airport elevation, whatever the
\* runways and the elevation.
C1_PrimaryInside ==
    (Returned /\ \E i \in 1..Len(runways) : InPrimary(runways[i])) =>
      /\ info["zone"] = "Primary"
      /\ "build_limit" \in DOMAIN info
      /\ info["build_limit"] = R(eae)

\* the transitional and approach surfaces of a runway that bound the query point, each as
\* <<zone, height at the point>>
BoundingOf(runway) ==
    LET Heights(zone, funcs) ==
            { <<zone, Apply(f, position[1], position[2])>> : f \in funcs \ {None} }
        Surfaces(ad, asurfaces, tsurfaces) ==
            (IF in_hsurface
             THEN Heights("Transitional",
                          { is_in_transitional_surface(position, tsurfaces.surfaces[j], eae) :
                              j \in 1..2 })
             ELSE {})
            \cup Heights("Approach",
                         { is_in_approach_surface(position, asurfaces.vertices.end1, ad.end1, eae),
                           is_in_approach_surface(position, asurfaces.vertices.end2, ad.end2, eae) })
        Transitional(ad, ps, asurfaces) ==
            Surfaces(ad, asurfaces,
                     get_transitional_surface_vertices(ps.vertices, asurfaces.vertices))
        Approach(ad, ps) == Transitional(ad, ps, get_approach_surface_vertices(ad, ps.vertices))
    IN  Approach(calc_approach_dimensions(runway), get_primary_surface_vertices(runway))

\* every non-primary surface that bounds the query point
Bounding ==
    LET Conical(func) ==
            IF func = None THEN {} ELSE {<<"Conical", Apply(func, position[1], position[2])>>}
    IN  (IF in_hsurface THEN {<<"Horizontal", R(eae)>>}
         ELSE Conical(is_in_conical_surface(position, hsurface, eae)))
        \cup UNION { BoundingOf(runways[i]) : i \in 1..Len(runways) }

C3_BothKeys ==
    Returned => {"zone", "build_limit"} \subseteq DOMAIN info

\* C3, amended: every result holds zone; it holds build_limit exactly when zone is not
\* "N/A".
C3_ZoneAndLimit ==
    Returned =>
      /\ "zone" \in DOMAIN info
      /\ "build_limit" \in DOMAIN info <=> info["zone"] # "N/A"

\* a point outside every surface has been classified
C3_NotApplicable ==
    /\ Returned
    /\ info["zone"] = "N/A"
    /\ ~in_hsurface

\* C4, as stated: with a lone runway, a query point exactly calc_hsurface_radius feet
\* from a runway endpoint, perpendicular to the runway (on the straight tangent edge), is
\* classified Horizontal with build_limit equal to the airport elevation.
C4_OnTangentEdge ==
    (/\ Returned
     /\ Len(runways) = 1
     /\ ~runways[1].special_surface
     /\ \E s \in {0, RunwayLength(runways[1])}, t \in {Radius(runways[1]), -Radius(runways[1])} :
          At(s, t)) =>
      /\ info["zone"] = "Horizontal"
      /\ info["build_limit"] = R(eae)

\* C5, as stated: with a lone runway, for a query point d feet outward from a straight
\* edge of the horizontal surface, within the edge's extent and at height eae + 150, the
\* zone is Conical with a build_limit above eae + 150 that reaches eae + 350 at d = 4000
\* when 0 < d <= 4000, and the zone is "N/A" when d > 4000.
C5_ConicalOutward ==
    (/\ Returned
     /\ Len(runways) = 1
     /\ ~runways[1].special_surface
     /\ position[3] = eae + 150) =>
      \A s \in AlongOffsets(runways[1]), t \in AcrossOffsets :
        LET d == Abs(t) - Radius(runways[1])
        IN  (At(s, t) /\ 0 <= s /\ s <= RunwayLength(runways[1]) /\ d > 0) =>
              IF d <= 4000
              THEN /\ info["zone"] = "Conical"
                   /\ RLt(R(eae + 150), info["build_limit"])
                   /\ RLe(info["build_limit"], R(eae + 350))
                   /\ d = 4000 => info["build_limit"] = R(eae + 350)
              ELSE info["zone"] = "N/A"

\* the query point is strictly within the horizontal-surface radius of an endpoint of
\* the runway, hence inside the outline
NearEndpoint(runway) ==
    /\ ~runway.special_surface
    /\ \E c \in {runway.end1.point, runway.end2.point} :
         Dist2(t2d(position), c) < Radius(runway) * Radius(runway)

\* the query point is in none of the footprints of the runway
OutsideFootprints(runway) ==
    LET Outside(ps, asurfaces, tsurfaces) ==
            /\ ~is_in_polygon(t2d(position), ps.vertices.end1 \o ps.vertices.end2, FALSE, FALSE)
            /\ \A v \in {asurfaces.vertices.end1, asurfaces.vertices.end2,
                         tsurfaces.surfaces[1], tsurfaces.surfaces[2]} :
                 ~is_in_polygon(t2d(position), v, TRUE, FALSE)
        Transitional(ps, asurfaces) ==
            Outside(ps, asurfaces,
                    get_transitional_surface_vertices(ps.vertices, asurfaces.vertices))
        Approach(ps) ==
            Transitional(ps, get_approach_surface_vertices(calc_approach_dimensions(runway),
                                                           ps.vertices))
    IN  Approach(get_primary_surface_vertices(runway))

\* C6, as stated: a query point inside the horizontal-surface outline and outside every
\* runway's primary, transitional and approach footprint is classified Horizontal with
\* build_limit equal to the airport elevation, whatever its height.
C6_HorizontalInside ==
    (/\ Returned
     /\ \E i \in 1..Len(runways) : NearEndpoint(runways[i])
     /\ \A i \in 1..Len(runways) : OutsideFootprints(runways[i])) =>
      /\ info["zone"] = "Horizontal"
      /\ info["build_limit"] = R(eae)

\* the runway with end1 and end2 exchanged, each end keeping its point and its approach
SwapEnds(runway) == [runway EXCEPT !.end1 = runway.end2, !.end2 = runway.end1]

\* C10, as stated: exchanging end1 and end2 of a runway changes neither the zone nor the
\* build_limit returned for the query point.
C10_SwapEnds ==
    Returned =>
      \A i \in 1..Len(runways) :
        LET Same(r) ==
                /\ r.err = "none"
                /\ r.info["zone"] = info["zone"]
                /\ "build_limit" \in DOMAIN r.info <=> "build_limit" \in DOMAIN info
                /\ "build_limit" \in DOMAIN info => r.info["build_limit"] = info["build_limit"]
        IN  Same(get_zone_information(position, [runways EXCEPT ![i] = SwapEnds(@)], eae))

-----------------------------------------------------------------------------
(* get_zone_information on runway lists that hold a zero-length runway     *)

\* a runway whose two ends are the same point
ZeroLength(name, p, special) == MakeRunway(name, <<p, p>>, UtilityVisual, special)

BaseRunway == MakeRunway("A", << <<0, 0>>, <<2000, 0>> >>, UtilityVisual, FALSE)

\* the zero-length runway alone, alone with a special surface, after and before a
\* regular runway; and the regular runway alone
ZeroLengthLists ==
    { <<ZeroLength("Z", <<0, 0>>, FALSE)>>,
      <<ZeroLength("Z", <<0, 0>>, TRUE)>>,
      <<BaseRunway, ZeroLength("Z", <<0, 1500>>, FALSE)>>,
      <<ZeroLength("Z", <<0, 1500>>, FALSE), BaseRunway>>,
      <<BaseRunway>> }

InitZeroLength ==
    /\ runways \in ZeroLengthLists
    /\ eae \in Elevations
    /\ position \in Positions(<<BaseRunway>>, eae)
    /\ pc = "start"
    /\ hsurface = <<>>
    /\ in_hsurface = FALSE
    /\ build_limit = R(eae)
    /\ info = EmptyDict
    /\ k = 1
    /\ err = "none"
    /\ width_out = 0
    /\ dim_out = EmptyDict
    /\ args = <<>>
    /\ result = <<>>

SpecZeroLength == InitZeroLength /\ [][Next]_vars

HasZeroLength(rws) == \E i \in 1..Len(rws) : rws[i].end1.point = rws[i].end2.point

\* C11, as stated: when the runway list holds a runway whose two endpoints coincide,
\* get_zone_information never ends in a generic failure (IndexError on an empty edge
\* list, KeyError on a missing dictionary key).
C11_ZeroLengthRejected ==
    HasZeroLength(runways) => err \notin {"IndexError", "KeyError"}

-----------------------------------------------------------------------------
(* Calls of single functions of util.py and surfaces.py on small arguments  *)

\* the arguments of get_plane have coordinates in 0..MaxCoord
MaxCoord == 1

Points3 == { <<x, y, R(z)>> : x \in 0..MaxCoord, y \in 0..MaxCoord, z \in 0..MaxCoord }

PlaneCalls == { [fn |-> "get_plane", a |-> a, b |-> b, c |-> c] : a \in Points3, b \in Points3, c \in Points3 }

\* circle 1 at the origin, circle 2 at 250 ft along an axis or a 3-4-5 direction, at
\* 150 ft along an axis, or at the origin too
Displacements ==
    { <<250, 0>>, <<-250, 0>>, <<0, 250>>, <<0, -250>>, <<150, 0>>, <<0, -150>>, <<0, 0>> }
    \cup { <<sx * 150, sy * 200>> : sx \in {-1, 1}, sy \in {-1, 1} }
    \cup { <<sx * 200, sy * 150>> : sx \in {-1, 1}, sy \in {-1, 1} }

\* <<r1, r2>>: equal and unequal radii; apart, touching, crossing, one inside the other
RadiusPairs ==
    { <<25, 25>>, <<200, 200>>, <<25, 175>>, <<175, 25>>, <<25, 225>>, <<225, 25>>,
      <<50, 200>>, <<200, 50>> }

TangentCalls ==
    { [fn |-> "cet2cr", c1 |-> <<0, 0>>, r1 |-> rp[1], c2 |-> d, r2 |-> rp[2]] :
        d \in Displacements, rp \in RadiusPairs }

\* <<a, b>> of the line ax + by + c = 0: vertical, horizontal, slopes 3/4 and -4/3 (in the
\* form -m x + y + c = 0 in which get_horizontal_surface_edges passes them), and no line
LineDirections ==
    { <<R(1), R(0)>>, <<R(0), R(1)>>, <<Rat(-3, 4), R(1)>>, <<Rat(4, 3), R(1)>>, <<R(0), R(0)>> }

LineOffsets ==
    { R(-10), R(-5), Rat(-25, 4), Rat(-25, 3), R(-3), R(0), R(3), R(5), Rat(25, 4), Rat(37, 4),
      R(10) }

LineCalls ==
    { [fn |-> "line_intersects_circle", a |-> ab[1], b |-> ab[2], c |-> c, p |-> p, r |-> 5] :
        ab \in LineDirections, c \in LineOffsets, p \in { <<0, 0>>, <<4, 0>>, <<0, -3>> } }

\* the query points of is_in_polygon have coordinates in -1..GridMax
GridMax == 5

\* convex polygons in counter-clockwise and in clockwise order: a square, a triangle and
\* a trapezoid
Polygons ==
    { << <<0, 0>>, <<4, 0>>, <<4, 4>>, <<0, 4>> >>,
      << <<0, 4>>, <<4, 4>>, <<4, 0>>, <<0, 0>> >>,
      << <<0, 0>>, <<4, 0>>, <<0, 4>> >>,
      << <<0, 4>>, <<4, 0>>, <<0, 0>> >>,
      << <<0, 1>>, <<0, 3>>, <<4, 4>>, <<4, 0>> >> }

PolygonCalls ==
    { [fn |-> "is_in_polygon", point |-> <<x, y>>, vertices |-> vs] :
        x \in -1..GridMax, y \in -1..GridMax, vs \in Polygons }

\* a precision-instrument runway along x or along y, with a visual end1 and a precision end2
PrecisionRunways ==
    { MakeRunway("P", g, <<"PRECISION_INSTRUMENT", "VISUAL", "PRECISION_INSTRUMENT", 0>>, FALSE) :
        g \in { << <<0, 0>>, <<2000, 0>> >>, << <<0, 0>>, <<0, 2000>> >> } }

\* the footprint of end2 as lines 229-244 of surfaces.py lay it out, over the end's own
\* lengths and width
PrecisionFootprint(runway) ==
    LET Quad(d, ps) ==
            ApproachQuad(ps.end2, Midpoint(ps.end2), Midpoint(ps.end1),
                         d["primary_length"] + d["secondary_length"], d["width"] \div 2)
    IN  Quad(calc_approach_dimensions(runway).end2, get_primary_surface_vertices(runway).vertices)

\* distances of the query point from the inner edge, and heights above the airport
ApproachDistances == {2500, 5000, 10000, 15000, 30000}

ApproachHeights == {0, 10, 20, 40, 50, 51, 100, 200, 201, 325, 326, 700, 701}

ApproachCalls ==
    { [fn |-> "is_in_approach_surface",
       position |-> t3d(InFrame(rw, RunwayLength(rw) + d, t), e + z),
       asurface |-> PrecisionFootprint(rw),
       approach_dimensions |-> calc_approach_dimensions(rw).end2,
       eae |-> e] :
        rw \in PrecisionRunways, d \in ApproachDistances, t \in {0, 100}, z \in ApproachHeights,
        e \in {0, 500} }

\* segments from a along an axis or a 3-4-5 direction, and query points p of the grid
SegmentCalls(fn) ==
    { [fn |-> fn, p |-> <<x, y>>, a |-> a, b |-> <<a[1] + d[1], a[2] + d[2]>>] :
        x \in -1..GridMax, y \in -1..GridMax, a \in { <<0, 0>>, <<1, 2>> },
        d \in { <<2, 0>>, <<0, 2>>, <<3, 4>>, <<4, 3>>, <<-3, 4>>, <<4, -3>> } }

UtilCalls ==
    PlaneCalls \cup TangentCalls \cup LineCalls \cup PolygonCalls \cup ApproachCalls
        \cup SegmentCalls("is_within_segment") \cup SegmentCalls("distance_to_line")

InitUtil ==
    /\ args \in UtilCalls
    /\ result = <<>>
    /\ pc = "call"
    /\ runways = <<>>
    /\ eae = 0
    /\ position = <<0, 0, 0>>
    /\ hsurface = <<>>
    /\ in_hsurface = FALSE
    /\ build_limit = R(0)
    /\ info = EmptyDict
    /\ k = 1
    /\ err = "none"
    /\ width_out = 0
    /\ dim_out = EmptyDict

GetPlane ==
    /\ pc = "call"
    /\ args.fn = "get_plane"
    /\ result' = get_plane(args.a, args.b, args.c)
    /\ pc' = "returned"
    /\ UNCHANGED <<runways, position, eae, hsurface, in_hsurface, build_limit, info, k, err,
                   width_out, dim_out, args>>

Cet2cr ==
    /\ pc = "call"
    /\ args.fn = "cet2cr"
    /\ result' = cet2cr(args.c1, args.r1, args.c2, args.r2)
    /\ pc' = "returned"
    /\ UNCHANGED <<runways, position, eae, hsurface, in_hsurface, build_limit, info, k, err,
                   width_out, dim_out, args>>

\* result is the length of the returned list
LineIntersectsCircle ==
    /\ pc = "call"
    /\ args.fn = "line_intersects_circle"
    /\ result' = line_intersects_circle(args.a, args.b, args.c, args.p, args.r)
    /\ pc' = "returned"
    /\ UNCHANGED <<runways, position, eae, hsurface, in_hsurface, build_limit, info, k, err,
                   width_out, dim_out, args>>

IsInPolygon ==
    /\ pc = "call"
    /\ args.fn = "is_in_polygon"
    /\ result' = is_in_polygon(args.point, args.vertices, FALSE, FALSE)
    /\ pc' = "returned"
    /\ UNCHANGED <<runways, position, eae, hsurface, in_hsurface, build_limit, info, k, err,
                   width_out, dim_out, args>>

\* result is the callable returned, or None
IsInApproachSurface ==
    /\ pc = "call"
    /\ args.fn = "is_in_approach_surface"
    /\ result' = is_in_approach_surface(args.position, args.asurface, args.approach_dimensions,
                                        args.eae)
    /\ pc' = "returned"
    /\ UNCHANGED <<runways, position, eae, hsurface, in_hsurface, build_limit, info, k, err,
                   width_out, dim_out, args>>

IsWithinSegment ==
    /\ pc = "call"
    /\ args.fn = "is_within_segment"
    /\ result' = is_within_segment(args.p, args.a, args.b)
    /\ pc' = "returned"
    /\ UNCHANGED <<runways, position, eae, hsurface, in_hsurface, build_limit, info, k, err,
                   width_out, dim_out, args>>

DistanceToLine ==
    /\ pc = "call"
    /\ args.fn = "distance_to_line"
    /\ result' = distance_to_line(args.p, args.a, args.b)
    /\ pc' = "returned"
    /\ UNCHANGED <<runways, position, eae, hsurface, in_hsurface, build_limit, info, k, err,
                   width_out, dim_out, args>>

NextUtil ==
    \/ GetPlane
    \/ Cet2cr
    \/ LineIntersectsCircle
    \/ IsInPolygon
    \/ IsInApproachSurface
    \/ IsWithinSegment
    \/ DistanceToLine

SpecUtil == InitUtil /\ [][NextUtil]_vars

-----------------------------------------------------------------------------
(* Properties of the functions of util.py (under SpecUtil)                 *)

\* a, b, c are not collinear and their plane is not vertical: their projections on the
\* xy plane are not collinear
NonVertical(a, b, c) ==
    (b[1] - a[1]) * (c[2] - a[2]) - (b[2] - a[2]) * (c[1] - a[1]) # 0

\* C12, as stated: for three non-collinear points a, b, c whose plane is not vertical the
\* function returned by get_plane(a, b, c) takes the value a.z at a, b.z at b and c.z at c.
C12_PlaneThroughPoints ==
    (/\ pc = "returned"
     /\ args.fn = "get_plane"
     /\ NonVertical(args.a, args.b, args.c)) =>
      /\ Apply(result, args.a[1], args.a[2]) = args.a[3]
      /\ Apply(result, args.b[1], args.b[2]) = args.b[3]
      /\ Apply(result, args.c[1], args.c[2]) = args.c[3]

\* cet2cr has returned
CetReturned == pc = "returned" /\ args.fn = "cet2cr"

\* the centers coincide, or the distance between them plus the smaller radius is at most
\* the larger radius
Nested(c1, r1, c2, r2) ==
    \/ c1 = c2
    \/ Dist2(c1, c2) <= (r1 - r2) * (r1 - r2)

OnCircle(p, c, r) == Dist2(p, c) = r * r

\* p is to the right of the directed line from a to b
RightOf(a, b, p) == (b[1] - a[1]) * (p[2] - a[2]) - (b[2] - a[2]) * (p[1] - a[1]) < 0

\* C13: cet2cr returns the empty list exactly when the centers coincide or one circle
\* contains the other; otherwise it returns two points, the first on circle 1 and the
\* second on circle 2, both to the right of the directed line c1 -> c2.
C13_RightTangent ==
    CetReturned =>
      /\ result = <<>> <=> Nested(args.c1, args.r1, args.c2, args.r2)
      /\ result # <<>> =>
           /\ Len(result) = 2
           /\ OnCircle(result[1], args.c1, args.r1)
           /\ OnCircle(result[2], args.c2, args.r2)
           /\ RightOf(args.c1, args.c2, result[1])
           /\ RightOf(args.c1, args.c2, result[2])

\* C13, witness: two points were returned for circles of different radii whose centers
\* differ in x and in y
C13_ObliqueUnequal ==
    /\ CetReturned
    /\ result # <<>>
    /\ args.r1 # args.r2
    /\ args.c1[1] # args.c2[1]
    /\ args.c1[2] # args.c2[2]

\* C13, witness of the other half: the empty list was returned for a circle that
\* touches the other from inside
C13_InternallyTangent ==
    /\ CetReturned
    /\ result = <<>>
    /\ args.c1 # args.c2
    /\ Dist2(args.c1, args.c2) = (args.r1 - args.r2) * (args.r1 - args.r2)

\* the circles do not overlap: the distance between the centers is at least r1 + r2
Apart(c1, r1, c2, r2) == Dist2(c1, c2) >= (r1 + r2) * (r1 + r2)

\* the line through p1 and p2 touches the circle around c at p, one of the two points
TangentAt(p1, p2, p, c) ==
    (p2[1] - p1[1]) * (p[1] - c[1]) + (p2[2] - p1[2]) * (p[2] - c[2]) = 0

\* q is the reflection of p across the line through a and b
Mirrored(p, q, a, b) ==
    /\ (b[1] - a[1]) * (p[1] - a[1]) + (b[2] - a[2]) * (p[2] - a[2])
         = (b[1] - a[1]) * (q[1] - a[1]) + (b[2] - a[2]) * (q[2] - a[2])
    /\ (b[1] - a[1]) * (p[2] - a[2]) - (b[2] - a[2]) * (p[1] - a[1])
         = -((b[1] - a[1]) * (q[2] - a[2]) - (b[2] - a[2]) * (q[1] - a[1]))

\* C14: for two circles that do not overlap, cet2cr(c1, r1, c2, r2) and the mirrored call
\* cet2cr(c2, r2, c1, r1) return the two common external tangents: each line touches both
\* circles at the returned points, and the mirrored call's points are the reflections of
\* the first call's points across the line through the centers.
C14_MirroredTangent ==
    (CetReturned /\ Apart(args.c1, args.r1, args.c2, args.r2)) =>
      LET Pair(t, u) ==
              /\ Len(t) = 2 /\ Len(u) = 2
              /\ OnCircle(t[1], args.c1, args.r1) /\ OnCircle(t[2], args.c2, args.r2)
              /\ OnCircle(u[1], args.c2, args.r2) /\ OnCircle(u[2], args.c1, args.r1)
              /\ TangentAt(t[1], t[2], t[1], args.c1) /\ TangentAt(t[1], t[2], t[2], args.c2)
              /\ TangentAt(u[1], u[2], u[1], args.c2) /\ TangentAt(u[1], u[2], u[2], args.c1)
              /\ Mirrored(t[1], u[2], args.c1, args.c2)
              /\ Mirrored(t[2], u[1], args.c1, args.c2)
              /\ t[1] # u[2]
      IN  Pair(result, cet2cr(args.c2, args.r2, args.c1, args.r1))

\* C14, witness: the call was made on two circles of different radii, strictly apart,
\* whose centers differ in x and in y
C14_ApartUnequal ==
    /\ CetReturned
    /\ Dist2(args.c1, args.c2) > (args.r1 + args.r2) * (args.r1 + args.r2)
    /\ args.r1 # args.r2
    /\ args.c1[1] # args.c2[1]
    /\ args.c1[2] # args.c2[2]
    /\ Len(result) = 2

\* the square of (a*p0 + b*p1 + c) against r^2 * (a^2 + b^2): the distance from the
\* center p to the line ax + by + c = 0 against the radius; -1 inside, 0 on, 1 outside
LineAgainstCircle(a, b, c, p, r) ==
    LET Cmp(t, n) == RSign(RSub(RMul(t, t), RMul(R(r * r), n)))
    IN  Cmp(RAdd(RAdd(RMul(a, R(p[1])), RMul(b, R(p[2]))), c), RAdd(RMul(a, a), RMul(b, b)))

\* C15, as stated: for every line ax + by + c = 0 with (a, b) # (0, 0), vertical and
\* horizontal lines included, line_intersects_circle returns no point when the line
\* misses the circle, one point when it is tangent and two points when it crosses.
C15_IntersectionCount ==
    (/\ pc = "returned"
     /\ args.fn = "line_intersects_circle"
     /\ <<args.a, args.b>> # <<R(0), R(0)>>) =>
      LET Expect(side) == result = IF side > 0 THEN 0 ELSE IF side = 0 THEN 1 ELSE 2
      IN  Expect(LineAgainstCircle(args.a, args.b, args.c, args.p, args.r))

\* the cross product (b - a) x (p - a): positive when p is to the left of a -> b
Turn(a, b, p) == (b[1] - a[1]) * (p[2] - a[2]) - (b[2] - a[2]) * (p[1] - a[1])

\* p is inside the convex polygon or on its boundary: p is on the same side of, or on,
\* every edge
InsideOrOn(p, vs) ==
    LET n == Len(vs)
    IN  \/ \A i \in 1..n : Turn(vs[i], vs[(i % n) + 1], p) >= 0
        \/ \A i \in 1..n : Turn(vs[i], vs[(i % n) + 1], p) <= 0

\* p is on an edge or at a vertex of the convex polygon
OnBoundary(p, vs) ==
    /\ InsideOrOn(p, vs)
    /\ \E i \in 1..Len(vs) : Turn(vs[i], vs[(i % Len(vs)) + 1], p) = 0

\* C16, as stated: for a convex polygon of at least 3 vertices given in clockwise or
\* counter-clockwise order, is_in_polygon returns true for every point inside the polygon
\* or on its boundary and false for every point outside it.
C16_InsideOrOnBoundary ==
    (pc = "returned" /\ args.fn = "is_in_polygon") =>
      (result <=> InsideOrOn(args.point, args.vertices))

-----------------------------------------------------------------------------
(* Properties of the classifier, continued (under Spec)                    *)

\* the query point is at horizontal distance R..R+4000 from the center of the Arc entry
\* and not above the cone that rises from e + 150 at distance R to e + 350 at distance
\* R + 4000, one foot in twenty:  z - (e + 150) <= (d - R) / 20
UnderArcCone(pos, arc, e) ==
    LET Under(d2, inner) ==
            /\ arc.radius * arc.radius <= d2
            /\ d2 <= (arc.radius + 4000) * (arc.radius + 4000)
            /\ inner * inner <= d2
    IN  Under(Dist2(t2d(pos), arc.center), arc.radius + 20 * (pos[3] - (e + 150)))

\* C17, as stated: a query point outside the horizontal surface with z >= eae + 150, at
\* distance R..R+4000 from the center of an Arc entry of radius R and not above the
\* conical height at that distance, is reported with zone Conical.
C17_ConicalAtArc ==
    (/\ Returned
     /\ ~in_hsurface
     /\ position[3] >= eae + 150
     /\ \A i \in 1..Len(runways) : OutsideFootprints(runways[i])
     /\ \E i \in 1..Len(hsurface) :
          hsurface[i].kind = "Arc" /\ UnderArcCone(position, hsurface[i], eae)) =>
      info["zone"] = "Conical"

\* the footprints of the runway: [primary, approach (two quads), transitional (two
\* hexagons)], built as lines 456-459 build them
Footprints(runway) ==
    LET All(ps, asurfaces, tsurfaces) ==
            [primary |-> ps.vertices.end1 \o ps.vertices.end2,
             approach |-> <<asurfaces.vertices.end1, asurfaces.vertices.end2>>,
             transitional |-> tsurfaces.surfaces]
        Transitional(ps, asurfaces) ==
            All(ps, asurfaces, get_transitional_surface_vertices(ps.vertices, asurfaces.vertices))
        Approach(ps) ==
            Transitional(ps, get_approach_surface_vertices(calc_approach_dimensions(runway),
                                                           ps.vertices))
    IN  Approach(get_primary_surface_vertices(runway))

\* the query point is inside side j of the transitional footprint of runway i
InTransitional(i, j) ==
    is_in_polygon(t2d(position), Footprints(runways[i]).transitional[j], TRUE, FALSE)

\* the height at the point p of the plane that is e on the line through the first and
\* the last vertex of the hexagon (the primary-surface edge) and e + 150 at its third
\* vertex (the outer transitional vertex)
TransitionalHeight(p, tsurface, e) ==
    LET p1 == tsurface[1]
        p2 == tsurface[Len(tsurface)]
        p3 == tsurface[3]
    IN  RAdd(R(e), RMul(R(150), Rat(Turn(p1, p2, p), Turn(p1, p2, p3))))

\* C18, as stated: for every runway orientation, a query point inside the horizontal
\* surface, inside one transitional footprint of a runway and in no primary or approach
\* footprint, not above the plane that is eae on the primary-surface edge and eae + 150
\* at the outer transitional vertex, is classified Transitional for that runway, with
\* build_limit the height of that plane at the point.
C18_TransitionalPlane ==
    (Returned /\ in_hsurface) =>
      \A i \in 1..Len(runways), j \in 1..2 :
        LET Classified(h) ==
                RLe(R(position[3]), h) =>
                  /\ info["zone"] = "Transitional"
                  /\ info["runway"] = runways[i].name
                  /\ info["build_limit"] = h
        IN  (/\ InTransitional(i, j)
             /\ \A m \in 1..Len(runways), n \in 1..2 :
                  <<m, n>> # <<i, j>> =>
                    ~is_in_polygon(t2d(position), Footprints(runways[m]).transitional[n],
                                   TRUE, FALSE)
             /\ \A m \in 1..Len(runways) :
                  /\ ~is_in_polygon(t2d(position), Footprints(runways[m]).primary, FALSE, FALSE)
                  /\ \A n \in 1..2 :
                       ~is_in_polygon(t2d(position), Footprints(runways[m]).approach[n],
                                      TRUE, FALSE)) =>
              Classified(TransitionalHeight(t2d(position),
                                            Footprints(runways[i]).transitional[j], eae))

-----------------------------------------------------------------------------
(* Properties of the approach footprints (under SpecDims)                  *)

\* the approach length of an end with the dimensions d: primary_length +
\* secondary_length for a precision end, length for any other; -1 if d lacks the keys
OwnLength(d) == ApproachLength(d, d)

\* the footprint quad of an end with the dimensions d, on a runway along the x axis:
\* four vertices, the first two the primary-surface edge, the last two on a line across
\* the centerline at the end's own approach length from the edge's midpoint, each at
\* half of the end's own width from the centerline
OwnFootprint(quad, d) ==
    /\ Len(quad) = 4
    /\ "width" \in DOMAIN d
    /\ OwnLength(d) >= 0
    /\ LET Outer(inner, outer) ==
               /\ outer[2] = inner[2]
               /\ Abs(outer[1] - inner[1]) = OwnLength(d)
               /\ quad[3][1] = outer[1] /\ quad[4][1] = outer[1]
               /\ Abs(quad[3][2] - outer[2]) = d["width"] \div 2
               /\ Abs(quad[4][2] - outer[2]) = d["width"] \div 2
       IN  Outer(Midpoint(<<quad[1], quad[2]>>), Midpoint(<<quad[3], quad[4]>>))

\* C20, as stated: for every combination of the two ends' approach categories,
\* get_approach_surface_vertices returns for each end a 4-vertex footprint whose outer
\* edge lies at that end's own approach length from the midpoint of its primary-surface
\* edge and whose outer half-width is half of that end's own approach width.
C20_OwnDimensions ==
    pc = "vertices" =>
      /\ result.err = "none"
      /\ OwnFootprint(result.vertices.end1, dim_out.end1)
      /\ OwnFootprint(result.vertices.end2, dim_out.end2)

-----------------------------------------------------------------------------
(* The height profile of a precision-instrument approach (under SpecUtil)  *)

\* the distance of p from the inner edge of the footprint, along the centerline
AlongCenterline(p, asurface) ==
    LET Along(mid, far) ==
            ((p[1] - mid[1]) * (far[1] - mid[1]) + (p[2] - mid[2]) * (far[2] - mid[2]))
                \div calc_distance(mid, far)
    IN  Along(Midpoint(asurface), Midpoint(<<asurface[3], asurface[4]>>))

\* EAE + primary_slope * d up to primary_length, the secondary slope beyond it
ProfileHeight(d, dims, e) ==
    IF d <= dims["primary_length"]
    THEN RAdd(R(e), RMul(dims["primary_slope"], R(d)))
    ELSE RAdd(RAdd(R(e), RMul(dims["primary_slope"], R(dims["primary_length"]))),
              RMul(dims["secondary_slope"], R(d - dims["primary_length"])))

\* C21: for a precision-instrument end, a point strictly inside the footprint whose
\* projection on the centerline is d from the inner edge is accepted exactly when it is not
\* above EAE + primary_slope * d (d <= primary_length) resp. EAE + primary_slope *
\* primary_length + secondary_slope * (d - primary_length), and the callable returned
\* evaluates to that height at the point
C21_PrecisionProfile ==
    (pc = "returned" /\ args.fn = "is_in_approach_surface")
        => LET Bound(h) ==
                   IF RLe(R(args.position[3]), h)
                   THEN result # None /\ Apply(result, args.position[1], args.position[2]) = h
                   ELSE result = None
           IN  Bound(ProfileHeight(AlongCenterline(args.position, args.asurface),
                                   args.approach_dimensions, args.eae))

-----------------------------------------------------------------------------
(* get_horizontal_surface_edges as a state machine                         *)

\* In SpecWalk, runways is the argument, hsurface the list edges, k the index i of the outer
\* loop (from 1) and result the other locals: endpoints, psurface_vertices,
\* current_circle (0 before the loop; from 1), c1 and <<p1, p2>> (<<>> for None).

\* a runway of radius 10000 from the origin to s2, and one of radius 5000 from s2 to s1:
\* the circles are a large one at the origin and a small one at each of s1 and s2
ThreeCircles(s1, s2) ==
    << MakeRunway("A", << <<0, 0>>, s2 >>, NonPrecision, FALSE),
       MakeRunway("B", <<s2, s1>>, UtilityVisual, FALSE) >>

\* two parallel runways and a third one from a corner to the middle of their rectangle
WithInnerCircle ==
    ParallelPair(UtilityVisual, UtilityVisual)
        \o << MakeRunway("C", << <<0, 0>>, <<1500, 2000>> >>, UtilityVisual, FALSE) >>

\* two runways one behind the other on the same line
InlinePair ==
    << MakeRunway("A", << <<0, 0>>, <<2000, 0>> >>, UtilityVisual, FALSE),
       MakeRunway("B", << <<4000, 0>>, <<6000, 0>> >>, UtilityVisual, FALSE) >>

WalkLists ==
    { <<MakeRunway("A", g, c, s)>> : g \in Geometries, c \in {UtilityVisual, NonPrecision}, s \in BOOLEAN }
    \cup { ParallelPair(UtilityVisual, UtilityVisual), TwinPair(UtilityVisual, NonPrecision),
           WithInnerCircle, InlinePair, <<>>,
           ThreeCircles(<<-5000, 3750>>, <<5000, 3750>>),
           ThreeCircles(<<-5000, -3750>>, <<5000, -3750>>),
           ThreeCircles(<<3750, -5000>>, <<3750, 5000>>),
           ThreeCircles(<<-3750, -5000>>, <<-3750, 5000>>),
           ThreeCircles(<<-6250, 0>>, <<6250, 0>>) }

InitWalk ==
    /\ runways \in WalkLists
    /\ hsurface = <<>>
    /\ k = 0
    /\ result = <<>>
    /\ pc = "call"
    /\ err = "none"
    /\ args = <<>>
    /\ eae = 0
    /\ position = <<0, 0, 0>>
    /\ in_hsurface = FALSE
    /\ build_limit = R(0)
    /\ info = EmptyDict
    /\ width_out = 0
    /\ dim_out = EmptyDict

\* lines 43-65: the circles are collected and sorted
CollectAndSort ==
    /\ pc = "call"
    /\ LET Sorted(cc) ==
               IF Len(runways) = 0
               THEN pc' = "returned" /\ err' = "none" /\ result' = <<>>
               ELSE IF cc.err # "none"
               THEN pc' = "raised" /\ err' = cc.err /\ result' = <<>>
               ELSE /\ pc' = "walk"
                    /\ err' = "none"
                    /\ result' = [endpoints |-> sort_directional(cc.keys),
                                  psurface_vertices |-> cc.rad,
                                  current_circle |-> 0, c1 |-> <<>>, tangent |-> <<>>]
       IN  Sorted(CollectCircles(runways, <<>>, EmptyDict))
    /\ k' = 1
    /\ UNCHANGED <<runways, position, eae, hsurface, in_hsurface, build_limit, info,
                   width_out, dim_out, args>>

\* lines 73-137: the secondary circle of the first valid tangent from circle i, the j-th
\* round onwards; 0 when the inner loop ends without one
RECURSIVE SearchSecondary(_, _, _, _)
SearchSecondary(endpoints, rad, i, j) ==
    LET n == Len(endpoints)
        secondary_circle == ((i - 1 + j) % n) + 1
        c1 == endpoints[i]
        c2 == endpoints[secondary_circle]
        Try(tangent_line) ==
            IF Len(tangent_line) = 0
            THEN SearchSecondary(endpoints, rad, i, j + 1)
            ELSE IF TangentValid(endpoints, rad, i, secondary_circle,
                                 tangent_line[1], tangent_line[2])
            THEN secondary_circle
            ELSE SearchSecondary(endpoints, rad, i, j + 1)
    IN  IF j >= n THEN 0
        ELSE IF secondary_circle = i \/ circle_in_circle(c1, rad[c1], c2, rad[c2])
        THEN SearchSecondary(endpoints, rad, i, j + 1)
        ELSE Try(cet2cr(c1, rad[c1], c2, rad[c2]))

\* lines 66-144: one round of the outer loop, which starts from circle i = k
SearchFrom ==
    /\ pc = "walk"
    /\ k <= Len(result.endpoints)
    /\ LET endpoints == result.endpoints
           rad == result.psurface_vertices
           c1 == endpoints[k]
           Round(secondary) ==
               IF secondary = 0
               THEN /\ result' = [result EXCEPT !.current_circle = k, !.c1 = c1,
                                                !.tangent = <<>>]
                    /\ hsurface' = hsurface
               ELSE LET Accept(t) ==
                            /\ result' = [result EXCEPT !.current_circle = secondary,
                                                        !.c1 = c1, !.tangent = t]
                            /\ hsurface' =
                                 IF Len(hsurface) > 0
                                 THEN hsurface \o <<Arc(c1, calc_distance(c1, t[1])),
                                                    Edge(t[1], t[2], <<>>)>>
                                 ELSE hsurface \o <<Edge(t[1], t[2], <<>>)>>
                    IN  Accept(cet2cr(c1, rad[c1], endpoints[secondary],
                                      rad[endpoints[secondary]]))
       IN  Round(SearchSecondary(endpoints, rad, k, 0))
    /\ k' = k + 1
    /\ UNCHANGED <<runways, position, eae, in_hsurface, build_limit, info, pc, err,
                   width_out, dim_out, args>>

\* lines 146-147; edges[-1] of an empty list raises IndexError
CloseOutline ==
    /\ pc = "walk"
    /\ k > Len(result.endpoints)
    /\ IF Len(hsurface) = 0
       THEN pc' = "raised" /\ err' = "IndexError" /\ hsurface' = hsurface
       ELSE /\ pc' = "returned"
            /\ err' = "none"
            /\ hsurface' = Append(hsurface, Edge(hsurface[Len(hsurface)].p2, hsurface[1].p1,
                                                 result.endpoints[1]))
    /\ UNCHANGED <<runways, position, eae, in_hsurface, build_limit, info, k, result,
                   width_out, dim_out, args>>

NextWalk == CollectAndSort \/ SearchFrom \/ CloseOutline

SpecWalk == InitWalk /\ [][NextWalk]_vars

\* C22: in the outline walk, after a tangent from circle i to circle j is accepted, the next
\* circle from which a tangent is searched is j, the far circle of the accepted tangent
C22_WalkContinuesAtFarCircle ==
    [][(pc = "walk" /\ pc' = "walk" /\ k' = k + 1 /\ result.tangent # <<>>)
           => result'.c1 = result.endpoints[result.current_circle]]_vars

\* the walk agrees with the outline that get_zone_information receives
WalkIsOutline ==
    pc \in {"returned", "raised"}
        => LET Same(hs) == IF pc = "raised" THEN hs.err = err
                           ELSE hs.err = "none" /\ hs.edges = hsurface
           IN  Same(get_horizontal_surface_edges(runways))

\* the entry is a straight edge resp. an arc (an Arc, or an Edge with a center)
IsStraight(edge) == edge.kind = "Edge" /\ edge.center = <<>>

IsArc(edge) == edge.kind = "Arc" \/ edge.center # <<>>

\* the straight edges before and after the arc at position i of the loop edges
ArcJoins(edges, i, rad) ==
    LET prev == edges[i - 1]
        next == edges[(i % Len(edges)) + 1]
        arc  == edges[i]
    IN  /\ IsStraight(prev) /\ IsStraight(next)
        /\ arc.center \in DOMAIN rad
        /\ arc.kind = "Arc" => arc.radius = rad[arc.center]
        /\ arc.kind = "Edge" => arc.p1 = prev.p2 /\ arc.p2 = next.p1
        /\ OnCircle(prev.p2, arc.center, rad[arc.center])
        /\ OnCircle(next.p1, arc.center, rad[arc.center])

\* C23: for every non-empty list of valid runways get_horizontal_surface_edges returns a
\* closed loop of at least 3 entries in which straight edges and arcs alternate: every
\* straight edge ends on the circle of the arc after it, the next straight edge starts on
\* that circle, and the last entry leads back to the start of the first edge
C23_ClosedAlternatingLoop ==
    /\ (pc = "raised") => Len(runways) = 0
    /\ (pc = "returned" /\ Len(runways) > 0)
           => /\ Len(hsurface) >= 3
              /\ Len(hsurface) % 2 = 0
              /\ \A i \in 1..Len(hsurface) :
                    IF i % 2 = 1 THEN IsStraight(hsurface[i])
                    ELSE IsArc(hsurface[i]) /\ ArcJoins(hsurface, i, result.psurface_vertices)

-----------------------------------------------------------------------------
(* The closing entry of the outline (under Spec)                           *)

\* the outline with every Edge that has a center read as the arc from p1 about that center
AsArcs(hs) ==
    [i \in DOMAIN hs |->
        IF hs[i].kind = "Edge" /\ hs[i].center # <<>>
        THEN Arc(hs[i].center, calc_distance(hs[i].center, hs[i].p1))
        ELSE hs[i]]

\* C24: an Edge with a non-empty center is treated as an arc about that center by
\* is_in_horizontal_surface (within-circle rule) and by is_in_conical_surface (cone rule),
\* never by the side test of a straight line or by the planar wedge
C24_CenteredEdgeIsArc ==
    (pc \in {"loop", "done"} /\ Len(hsurface) > 0)
        => /\ in_hsurface = is_in_horizontal_surface(t2d(position), AsArcs(hsurface))
           /\ ~in_hsurface => is_in_conical_surface(position, hsurface, eae)
                                  = is_in_conical_surface(position, AsArcs(hsurface), eae)

-----------------------------------------------------------------------------
(* Projections on a segment and distances to its line (under SpecUtil)     *)

Dot(u, v) == u[1] * v[1] + u[2] * v[2]

\* C25: is_within_segment(p, a, b) is true exactly when the orthogonal projection of p on
\* the line through a and b lies on the segment from a to b, ends included; it is false
\* when the projection lies beyond b
C25_ProjectionOnSegment ==
    (pc = "returned" /\ args.fn = "is_within_segment")
        => LET Between(t1, t2) == 0 <= Dot(t1, t2) /\ Dot(t1, t2) <= Dot(t1, t1)
           IN  result = Between(<<args.b[1] - args.a[1], args.b[2] - args.a[2]>>,
                                <<args.p[1] - args.a[1], args.p[2] - args.a[2]>>)

\* C26: distance_to_line(p, a, b) is the perpendicular distance from p to the line through
\* a and b, |(b - a) x (p - a)| / |b - a|, whatever the direction of the line
C26_PerpendicularDistance ==
    (pc = "returned" /\ args.fn = "distance_to_line")
        => LET Perp(t1, t2) == Rat(Abs(t1[1] * t2[2] - t1[2] * t2[1]), calc_distance(args.a, args.b))
           IN  result = Perp(<<args.b[1] - args.a[1], args.b[2] - args.a[2]>>,
                             <<args.p[1] - args.a[1], args.p[2] - args.a[2]>>)

-----------------------------------------------------------------------------
(* The circles enclosed by the horizontal surface (under Spec)             *)

\* the query point is strictly within calc_hsurface_radius of an endpoint of the runway,
\* the endpoints of a special-surface runway being extended by 200 ft
WithinRadius(runway) ==
    LET Ends(extended_endpoints) ==
            \E i \in 1..Len(extended_endpoints) :
                Dist2(t2d(position), extended_endpoints[i])
                    < calc_hsurface_radius(runway) * calc_hsurface_radius(runway)
    IN  Ends(IF runway.special_surface
             THEN extend_points_in_both_directions(runway.end1.point, runway.end2.point, 200)
             ELSE <<runway.end1.point, runway.end2.point>>)

\* C27: every point within calc_hsurface_radius of a (possibly extended) runway endpoint is
\* inside the horizontal surface as is_in_horizontal_surface decides it on the outline of
\* get_horizontal_surface_edges, for one runway and for several
C27_CirclesEnclosed ==
    (pc \in {"loop", "done"} /\ \E i \in 1..Len(runways) : WithinRadius(runways[i]))
        => in_hsurface

-----------------------------------------------------------------------------
(* The runway and end named in the result (under Spec)                     *)

\* the names of the ends of the runway whose approach surface bounds the query point at
\* the height z
EndsBounding(runway, z) ==
    LET Ends(ad, asurfaces) ==
            { e.name : e \in { e \in {runway.end1, runway.end2} :
                LET Bounds(func) ==
                        func # None /\ Apply(func, position[1], position[2]) = z
                IN  Bounds(IF e = runway.end1
                           THEN is_in_approach_surface(position, asurfaces.vertices.end1,
                                                       ad.end1, eae)
                           ELSE is_in_approach_surface(position, asurfaces.vertices.end2,
                                                       ad.end2, eae)) } }
        Approach(ad, ps) == Ends(ad, get_approach_surface_vertices(ad, ps.vertices))
    IN  Approach(calc_approach_dimensions(runway), get_primary_surface_vertices(runway))

-----------------------------------------------------------------------------
(* get_zone_information on the empty runway list                           *)

\* no runway, or the regular runway alone; the query points are laid out as for the
\* regular runway
InitNoRunway ==
    /\ runways \in { <<>>, <<BaseRunway>> }
    /\ eae \in Elevations
    /\ position \in Positions(<<BaseRunway>>, eae)
    /\ pc = "start"
    /\ hsurface = <<>>
    /\ in_hsurface = FALSE
    /\ build_limit = R(eae)
    /\ info = EmptyDict
    /\ k = 1
    /\ err = "none"
    /\ width_out = 0
    /\ dim_out = EmptyDict
    /\ args = <<>>
    /\ result = <<>>

SpecNoRunway == InitNoRunway /\ [][Next]_vars

\* C29: with an empty runway list get_zone_information returns zone "N/A" for every query
\* point and every airport elevation
C29_NoRunwayNoZone ==
    (Returned /\ Len(runways) = 0) => info["zone"] = "N/A"

-----------------------------------------------------------------------------
(* The independence of the two approach records (under SpecDims)           *)

\* the runway with the approach category of end1 resp. end2 replaced by at
WithEnd1(self, at) == [self EXCEPT !.end1.approach_type = at]

WithEnd2(self, at) == [self EXCEPT !.end2.approach_type = at]

\* C30: in calc_approach_dimensions the record of an end depends on the runway category,
\* the visibility minimum and that end's own approach category only: replacing the other
\* end's approach category changes no field of it; and every record holds a width
C30_RecordsIndependent ==
    pc = "dims" =>
      /\ "width" \in DOMAIN dim_out.end1
      /\ "width" \in DOMAIN dim_out.end2
      /\ \A at \in ApproachTypes :
            /\ calc_approach_dimensions(WithEnd2(runways[1], at)).end1 = dim_out.end1
            /\ calc_approach_dimensions(WithEnd1(runways[1], at)).end2 = dim_out.end2

====
